---------------------------- MODULE Spec2Model ----------------------------
(***************************************************************************)
(* A model of the TrafficAI streaming spine.                               *)
(*                                                                         *)
(* This part models the per-camera AccidentAggregator                      *)
(* (src/events/Accident_detect/incident_aggregator.py): the state machine  *)
(* that turns per-frame Detections into accident_open / accident_close     *)
(* events, and the way a SingleFileSession / SessionManager instantiates   *)
(* it.                                                                     *)
(*                                                                         *)
(* Numbers.  The code computes on Python floats.  The model is fixed       *)
(* point:                                                                  *)
(*   - confidences and soft_score are integers in units of 1e-4 (0.95 is   *)
(*     9500); ema is an integer in units of 1e-7, its update rounded down  *)
(*     to that unit (fine enough that, on the inputs of the model, every   *)
(*     comparison of ema with the exit threshold agrees with the floats);  *)
(*   - vts, start_ts, end_ts, duration_sec are integers in milliseconds.   *)
(* Every threshold of the code is the same number in these units.          *)
(*                                                                         *)
(* Optional values (Python None) are sequences of length 0 or 1.           *)
(***************************************************************************)
EXTENDS Integers, Sequences, FiniteSets, TLC

(***************************************************************************)
(* Program constants (incident_aggregator.py, accident_detector.py).       *)
(***************************************************************************)
ALPHA_PCT          == 22      \* _ALPHA = 0.22, in percent
EXIT_THR           == 3800    \* _EXIT_THR = 0.38
MIN_END_NEG_FRAMES == 8       \* _MIN_END_NEG_FRAMES
MIN_DURATION_SEC   == 150     \* _MIN_DURATION_SEC = 0.15 s, in ms
OCCLUSION_GRACE_SEC == 1200   \* _OCCLUSION_GRACE_SEC = 1.2 s, in ms
MERGE_GAP_SEC      == 4000    \* _MERGE_GAP_SEC = 4.0 s, in ms
EVIDENCE_BASELINE  == 1000    \* _EVIDENCE_BASELINE = 0.10
EVIDENCE_MIN_CONF  == 800     \* _EVIDENCE_MIN_CONF = 0.08
SOFT_GAIN          == 3       \* _SOFT_GAIN = 3.0
SOFT_DECAY         == 500     \* _SOFT_DECAY = 0.05
OPEN_SCORE_THR     == 7500    \* _OPEN_SCORE_THR = 0.75
MIN_OPEN_CONF      == 1500    \* _MIN_OPEN_CONF = 0.15
DECISION_THRESH    == 1800    \* _DECISION_THRESH = 0.18 (detector)

TOPIC_OPEN_BASE  == "accidents.open"
TOPIC_CLOSE_BASE == "accidents.close"

(***************************************************************************)
(* Bounds of the model.                                                    *)
(***************************************************************************)
MaxDet   == 19    \* detections fed to one aggregator
MaxRuns  == 4     \* maximal runs of equal confidence among them
MaxGaps  == 2     \* steps of vts among them that are off the sampling grid
MaxFlush == 2     \* flush() calls on one aggregator
MaxSessionDet == 3  \* detections per aggregator in the session model
MaxStarts     == 2  \* sessions SessionManager.start_all creates for the camera

\* The camera and the session id SessionManager.start_all passes.
CameraId  == "cam-1"
SessionId == "sse-main"

\* Confidences the detector reports (1e-4 units): background 0.01 and a
\* strong positive 0.95.
Confs == {100, 9500}
\* vts steps between consecutive detections (ms): one step of the 15 fps
\* sampling grid, and a gap (frames dropped on the way) longer than the
\* merge window.
GridSteps == {67}
Steps == GridSteps \cup {4100}

None == <<>>
Some(x) == <<x>>
Val(o) == o[1]

Max(a, b) == IF a >= b THEN a ELSE b

VARIABLES
    counter,             \* self._counter
    ema,                 \* self.ema (1e-7 units)
    neg_streak,          \* self._neg_streak
    open,                \* self._open: None or Some(_Incident)
    last_vts,            \* self._last_vts: None or Some(vts)
    soft_score,          \* self._soft_score
    pending_close,       \* self._pending_close: None or Some(close event)
    pending_close_time,  \* self._pending_close_time: None or Some(vts)
    published,           \* what bus.publish received, in order: [topic, ev]
    ndet,                \* detections processed by this aggregator
    flushes,             \* flush() calls on this aggregator
    lastOp,              \* the last operation: "init", "process", "flush"
    profile,             \* shape of the confidences seen so far
    last_conf,           \* None or Some(confidence of the last detection)
    runs,                \* maximal runs of equal confidence so far
    gaps,                \* off-grid steps of vts so far
    INTENDED,            \* rt.INTENDED: the registered camera ids
    SESSIONS,            \* rt.SESSIONS: the camera ids with a session
    starts,              \* sessions created so far
    _topics,             \* AsyncBus._topics: topic -> list of subscribers
    subscribers,         \* every _Subscriber created so far, by identity
    sent,                \* items published on the bus so far
    last_taken,          \* per subscriber: None or Some(the last item its
                         \* consumer took)
    many_state,          \* the subscribe_many scope: none/active/exiting/exited
    many_subs,           \* subscribe_many's subs, in the order of its topics
    merged_maxsize,      \* subscribe_many's maxsize
    merged_q,            \* subscribe_many's merged_q
    forward_tasks,       \* subscribe_many's forward_tasks, one per sub
    merged_taken,        \* what the consumer of merged_q took, in order
    src_state,           \* run_frame_source_raw: init/running/finished
    opened,              \* whether cv2.VideoCapture opened the source
    is_file,             \* its is_file
    src_fps,             \* its src_fps (0: unknown)
    frame_idx,           \* its frame_idx
    read_fails,          \* failed reads of a live source so far
    raw_log,             \* what it published on frames_raw:<cam>, in order
    smp_state,           \* run_sampler_equal_time_vts: init/running/failed/
                         \* cancelled
    raw_q,               \* the queue of its subscription to frames_raw:<cam>
    next_vts,            \* its next_vts: None or Some(ticks)
    sample_idx,          \* its sample_idx
    taken_raw,           \* the raw frames it took, in order
    frames_out,          \* what it published on frames:<cam>, in order
    det_state,           \* run_accident_detector_multi: init/running/
                         \* failed/cancelled
    collectors,          \* its collectors: camera -> subscribed/exited
    results,             \* results of the last infer_batch
    turn_outcome,        \* how the last turn of its loop ended
    _active,             \* MultiDetectorPool._active
    _task,               \* MultiDetectorPool._task: None or a detector task
    engine_loads,        \* _YOLOEngine() calls so far
    pool_ops,            \* ensure_join and ensure_leave calls so far
    reg_order,           \* the cameras in the order of their registration
    session,             \* camera -> its SingleFileSession and its tasks
    DETECTOR_TASK,       \* rt.DETECTOR_TASK: None or Some(place in detectors)
    detectors,           \* the detector tasks start_all has created
    batch_size,          \* its batch_size
    bufs,                \* its bufs: camera -> buffered frames
    collected,           \* camera -> frames its collector has taken so far
    batch_items,         \* batch_items of the last turn of its loop
    det_published,       \* what that turn published, in order
    accident_last,       \* per camera: the vts of the last Detection
                         \* published on accident:<cam>
    acc_q,               \* the queue of aggregator.run's subscription to
                         \* accident:<cam>
    agg_task,            \* the task of aggregator.run: none/created/running/
                         \* cancelling/cancelled
    feed,                \* the detector as the aggregator's producer: the
                         \* Detections it has published, whether it is alive
    coord                \* the coroutine that owns the aggregator: which one
                         \* (kind) and where it is (pc)

busVars == <<_topics, subscribers, sent, last_taken, many_state, many_subs,
             merged_maxsize, merged_q, forward_tasks, merged_taken>>

srcVars == <<src_state, opened, is_file, src_fps, frame_idx, read_fails, raw_log>>

smpVars == <<smp_state, raw_q, next_vts, sample_idx, taken_raw, frames_out>>

\* The state of the components other than the aggregator and its sessions.
detVars == <<det_state, batch_size, bufs, collected, batch_items,
             det_published, accident_last, collectors, results, turn_outcome>>

poolVars == <<_active, _task, engine_loads, pool_ops>>

\* The state of the detector pool and of the camera sessions.
coordVars == <<reg_order, session, DETECTOR_TASK, detectors>>

\* the aggregator's run loop and its owner
loopVars == <<acc_q, agg_task, feed, coord>>

ctlVars == <<poolVars, coordVars, loopVars>>

restVars == <<busVars, srcVars, smpVars, detVars, ctlVars>>

vars == <<counter, ema, neg_streak, open, last_vts, soft_score, pending_close,
          pending_close_time, published, ndet, flushes, lastOp, profile,
          last_conf, runs, gaps, INTENDED, SESSIONS, starts, restVars>>

mgrVars == <<INTENDED, SESSIONS, starts>>

envVars == <<ndet, profile, last_conf, runs, gaps>>

aggState == <<counter, ema, neg_streak, open, last_vts, soft_score,
              pending_close, pending_close_time>>

\* The state of the aggregator, its inputs and its sessions.
aggVars == <<aggState, published, flushes, lastOp, envVars, mgrVars>>

(***************************************************************************)
(* bus.topic_for                                                           *)
(***************************************************************************)
topic_for(base, camera_id) ==
    IF camera_id # "" THEN base \o ":" \o camera_id ELSE base

(***************************************************************************)
(* _new_id: f"{session_id}-{camera_id}-{counter:06d}".  The id is the      *)
(* triple of its parts; the suffix is the counter's decimal digits, zero   *)
(* padded to six.                                                          *)
(***************************************************************************)
Pow10(k) == IF k = 0 THEN 1 ELSE IF k = 1 THEN 10 ELSE IF k = 2 THEN 100
            ELSE IF k = 3 THEN 1000 ELSE IF k = 4 THEN 10000 ELSE 100000

Pad6(n) == [i \in 1..6 |-> (n \div Pow10(6 - i)) % 10]

\* Mutant of NextCounter: the increment is lost.
NextCounter_stuck(c) == c

\* self._counter += 1
NextCounter(c) == c + 1

new_id(session_id, camera_id, n) == <<session_id, camera_id, Pad6(n)>>

\* The number a six digit suffix denotes.
SuffixNum(id) ==
    LET d == id[3] IN
    d[1] * 100000 + d[2] * 10000 + d[3] * 1000 + d[4] * 100 + d[5] * 10 + d[6]

(***************************************************************************)
(* The detector's Detection for a frame: happened = conf >= threshold.     *)
(***************************************************************************)
Detection(vts, conf, fidx) ==
    [vts |-> vts, confidence |-> conf, happened |-> (conf >= DECISION_THRESH),
     frame_idx |-> fidx]

(***************************************************************************)
(* _emit_open's event.                                                     *)
(***************************************************************************)
OpenEvent(inc) ==
    [type |-> "accident_open",
     camera_id |-> CameraId,
     frame_idx |-> inc.start_idx,
     pts_in_video |-> inc.start_ts,
     confidence |-> inc.peak_conf,
     session_id |-> SessionId,
     incident_id |-> inc.id,
     peak_confidence |-> inc.peak_conf]

(***************************************************************************)
(* _schedule_close's event.                                                *)
(***************************************************************************)
CloseEvent(inc) ==
    [type |-> "accident_close",
     camera_id |-> CameraId,
     frame_idx |-> inc.end_idx,
     pts_in_video |-> inc.end_ts,
     confidence |-> inc.peak_conf,
     session_id |-> SessionId,
     incident_id |-> inc.id,
     start_ts |-> inc.start_ts,
     end_ts |-> inc.end_ts,
     duration_sec |-> Max(0, inc.end_ts - inc.start_ts),
     peak_confidence |-> inc.peak_conf,
     pos_frames |-> inc.pos_frames]

\* Mutant of FlushOpenEvent: the close is built from the incident as it was
\* opened, not as it is now.
FlushOpenEvent_stale(inc) ==
    [type |-> "accident_close",
     session_id |-> SessionId,
     incident_id |-> inc.id,
     camera_id |-> CameraId,
     start_ts |-> inc.start_ts,
     end_ts |-> inc.start_ts,
     duration_sec |-> 0,
     peak_confidence |-> inc.peak_conf,
     pos_frames |-> 1,
     reason |-> "flush_open"]

(***************************************************************************)
(* flush's event for a still-open incident.                                *)
(***************************************************************************)
FlushOpenEvent(inc) ==
    [type |-> "accident_close",
     session_id |-> SessionId,
     incident_id |-> inc.id,
     camera_id |-> CameraId,
     start_ts |-> inc.start_ts,
     end_ts |-> inc.end_ts,
     duration_sec |-> Max(0, inc.end_ts - inc.start_ts),
     peak_confidence |-> inc.peak_conf,
     pos_frames |-> inc.pos_frames,
     reason |-> "flush_open"]

Pub(base, ev) == [topic |-> topic_for(base, CameraId), ev |-> ev]

\* Mutant of PendingExpired: any later detection publishes the pending close.
PendingExpired_early(pc, pct, now_vts) ==
    /\ pc # None
    /\ pct # None
    /\ now_vts - Val(pct) > 0

(***************************************************************************)
(* _flush_pending_close_if_expired's condition.                            *)
(***************************************************************************)
PendingExpired(pc, pct, now_vts) ==
    /\ pc # None
    /\ pct # None
    /\ now_vts - Val(pct) > MERGE_GAP_SEC

(***************************************************************************)
(* _process, step 2: the occlusion check.                                  *)
(***************************************************************************)
OcclusionOk(prev_vts, vts) ==
    ~(prev_vts # None /\ (vts - Val(prev_vts)) > OCCLUSION_GRACE_SEC)

(***************************************************************************)
(* _process, step 3: ema = ALPHA * conf + (1 - ALPHA) * ema.               *)
(***************************************************************************)
EmaUpdate(e, conf) ==
    (ALPHA_PCT * (conf * 1000) + (100 - ALPHA_PCT) * e) \div 100

(***************************************************************************)
(* _process, step 4: the soft evidence score.                              *)
(***************************************************************************)
SoftUpdate(s, conf) ==
    LET inc == IF conf >= EVIDENCE_MIN_CONF
               THEN Max(0, conf - EVIDENCE_BASELINE) * SOFT_GAIN
               ELSE 0
        s1 == s + inc - SOFT_DECAY
    IN  IF s1 < 0 THEN 0 ELSE s1

(***************************************************************************)
(* _process: the open condition.                                           *)
(***************************************************************************)
OpenCondition(o, soft, conf) ==
    o = None /\ soft >= OPEN_SCORE_THR /\ conf >= MIN_OPEN_CONF

\* Mutant of MergeCondition: a reopen is never merged into the pending close.
MergeCondition_never(pc, pct, vts) == FALSE

(***************************************************************************)
(* _process, 4.1: a reopen inside the merge window.                        *)
(***************************************************************************)
MergeCondition(pc, pct, vts) ==
    /\ pc # None
    /\ pct # None
    /\ (vts - Val(pct)) <= MERGE_GAP_SEC

(***************************************************************************)
(* _merge_reopen_into_pending: the pending close after the merge.          *)
(***************************************************************************)
merge_reopen_into_pending(pc, new_vts, new_peak, new_pos_frames) ==
    [pc EXCEPT !.end_ts = new_vts,
               !.duration_sec = Max(0, new_vts - pc.start_ts),
               !.peak_confidence = Max(pc.peak_confidence, new_peak),
               !.pos_frames = pc.pos_frames + new_pos_frames]

\* Mutant of ReopenedIncident: the reopened incident starts at the reopening
\* detection.
ReopenedIncident_restart(pc, vts, fidx) ==
    [id |-> pc.incident_id,
     start_ts |-> vts,
     end_ts |-> vts,
     start_idx |-> fidx,
     end_idx |-> fidx,
     peak_conf |-> pc.peak_confidence,
     pos_frames |-> pc.pos_frames]

(***************************************************************************)
(* _process, 4.1: the incident rebuilt from the merged pending close.      *)
(***************************************************************************)
ReopenedIncident(pc, vts, fidx) ==
    [id |-> pc.incident_id,
     start_ts |-> pc.start_ts,
     end_ts |-> vts,
     start_idx |-> fidx,
     end_idx |-> fidx,
     peak_conf |-> pc.peak_confidence,
     pos_frames |-> pc.pos_frames]

\* Mutant of NewIncident: peak_conf is left at the dataclass default 0.0.
NewIncident_default_peak(id, det) ==
    [id |-> id,
     start_ts |-> det.vts,
     end_ts |-> det.vts,
     start_idx |-> det.frame_idx,
     end_idx |-> det.frame_idx,
     peak_conf |-> 0,
     pos_frames |-> IF det.happened \/ det.confidence >= MIN_OPEN_CONF
                    THEN 1 ELSE 0]

(***************************************************************************)
(* _process, 4.2: a fresh incident.                                        *)
(***************************************************************************)
NewIncident(id, det) ==
    [id |-> id,
     start_ts |-> det.vts,
     end_ts |-> det.vts,
     start_idx |-> det.frame_idx,
     end_idx |-> det.frame_idx,
     peak_conf |-> det.confidence,
     pos_frames |-> IF det.happened \/ det.confidence >= MIN_OPEN_CONF
                    THEN 1 ELSE 0]

(***************************************************************************)
(* _process: the update of the open incident by one detection.             *)
(***************************************************************************)
UpdatedIncident(inc, det) ==
    [inc EXCEPT !.end_ts = det.vts,
                !.end_idx = det.frame_idx,
                !.peak_conf = Max(inc.peak_conf, det.confidence),
                !.pos_frames = IF det.happened \/ det.confidence >= MIN_OPEN_CONF
                               THEN inc.pos_frames + 1 ELSE inc.pos_frames]

\* Mutant of NegStreak: the occlusion check is left out.
NegStreak_no_occlusion(n, e, occlusion_ok) ==
    IF e <= EXIT_THR * 1000 THEN n + 1 ELSE 0

(***************************************************************************)
(* _process: the negative streak.                                          *)
(***************************************************************************)
NegStreak(n, e, occlusion_ok) ==
    IF e <= EXIT_THR * 1000 /\ occlusion_ok THEN n + 1 ELSE 0

(***************************************************************************)
(* _process: the close condition.                                          *)
(***************************************************************************)
CloseCondition(n, duration) ==
    n >= MIN_END_NEG_FRAMES /\ duration >= MIN_DURATION_SEC

(***************************************************************************)
(* The shape of the confidences processed so far (n of them): "quiet"     *)
(* while every one was 0.01; "spike" when the last one is the only 0.95    *)
(* and 0.01s precede it; "spiked" when 0.01s have followed that single     *)
(* 0.95; "other" else.                                                     *)
(***************************************************************************)
NextProfile(p, conf, n) ==
    IF conf = 100
    THEN (IF p = "spike" THEN "spiked" ELSE p)
    ELSE IF conf = 9500 /\ p = "quiet" /\ n >= 1 THEN "spike"
    ELSE "other"

(***************************************************************************)
(* AccidentAggregator.__init__                                             *)
(***************************************************************************)
AggInit ==
    /\ counter = 0
    /\ ema = 0
    /\ neg_streak = 0
    /\ open = None
    /\ last_vts = None
    /\ soft_score = 0
    /\ pending_close = None
    /\ pending_close_time = None

Init ==
    /\ AggInit
    /\ published = <<>>
    /\ ndet = 0
    /\ flushes = 0
    /\ lastOp = "init"
    /\ profile = "quiet"
    /\ last_conf = None
    /\ runs = 0
    /\ gaps = 0
    /\ INTENDED = {}
    /\ SESSIONS = {}
    /\ starts = 0
    \* AsyncBus.__init__: no topic, no subscriber
    /\ _topics = <<>>
    /\ subscribers = <<>>
    /\ sent = 0
    /\ last_taken = <<>>
    /\ many_state = "none"
    /\ many_subs = <<>>
    /\ merged_maxsize = 0
    /\ merged_q = <<>>
    /\ forward_tasks = <<>>
    /\ merged_taken = <<>>
    \* the frame source and the resampler: not started
    /\ src_state = "init"
    /\ opened = TRUE
    /\ is_file = TRUE
    /\ src_fps = 0
    /\ frame_idx = 0
    /\ read_fails = 0
    /\ raw_log = <<>>
    /\ smp_state = "init"
    /\ raw_q = <<>>
    /\ next_vts = None
    /\ sample_idx = 0
    /\ taken_raw = <<>>
    /\ frames_out = <<>>
    \* the detector: not started
    /\ det_state = "init"
    /\ batch_size = 0
    /\ bufs = <<>>
    /\ collected = <<>>
    /\ batch_items = <<>>
    /\ det_published = <<>>
    /\ accident_last = <<>>
    /\ collectors = <<>>
    /\ results = <<>>
    /\ turn_outcome = "none"
    \* MultiDetectorPool.__init__
    /\ _active = {}
    /\ _task = None
    /\ engine_loads = 0
    /\ pool_ops = 0
    \* no camera registered, no session, no detector task
    /\ reg_order = <<>>
    /\ session = <<>>
    /\ DETECTOR_TASK = None
    /\ detectors = <<>>
    \* no aggregator task, nothing published to it
    /\ acc_q = <<>>
    /\ agg_task = "none"
    /\ feed = [n |-> 0, vts |-> 0, conf |-> 0, runs |-> 0, gaps |-> 0,
               alive |-> TRUE]
    /\ coord = [kind |-> "none", pc |-> "init"]

(***************************************************************************)
(* AccidentAggregator._process(det)                                        *)
(***************************************************************************)
Process(det) ==
    LET vts  == det.vts
        conf == det.confidence
        fidx == det.frame_idx
        \* 1) merge window expiry
        expired == PendingExpired(pending_close, pending_close_time, vts)
        pub1 == IF expired
                THEN Append(published, Pub(TOPIC_CLOSE_BASE, Val(pending_close)))
                ELSE published
        pc1  == IF expired THEN None ELSE pending_close
        pct1 == IF expired THEN None ELSE pending_close_time
        \* 2) occlusion
        occlusion_ok == OcclusionOk(last_vts, vts)
        \* 3) ema, 4) soft score
        ema1  == EmaUpdate(ema, conf)
        soft1 == SoftUpdate(soft_score, conf)
    IN
    /\ last_vts' = Some(vts)
    /\ IF OpenCondition(open, soft1, conf)
       THEN IF MergeCondition(pc1, pct1, vts)
            THEN LET pc == merge_reopen_into_pending(Val(pc1), vts, conf, 1)
                 IN  /\ open' = Some(ReopenedIncident(pc, vts, fidx))
                     /\ pending_close' = None
                     /\ pending_close_time' = None
                     /\ published' = pub1
                     /\ ema' = ema1
                     /\ soft_score' = soft1
                     /\ UNCHANGED <<counter, neg_streak>>
            ELSE LET inc == NewIncident(new_id(SessionId, CameraId, NextCounter(counter)), det)
                 IN  /\ counter' = NextCounter(counter)
                     /\ open' = Some(inc)
                     /\ published' = Append(pub1, Pub(TOPIC_OPEN_BASE, OpenEvent(inc)))
                     /\ pending_close' = pc1
                     /\ pending_close_time' = pct1
                     /\ ema' = ema1
                     /\ soft_score' = soft1
                     /\ UNCHANGED neg_streak
       ELSE IF open # None
            THEN LET inc == UpdatedIncident(Val(open), det)
                     neg == NegStreak(neg_streak, ema1, occlusion_ok)
                     duration == inc.end_ts - inc.start_ts
                 IN  IF CloseCondition(neg, duration)
                     THEN /\ pending_close' = Some(CloseEvent(inc))
                          /\ pending_close_time' = Some(inc.end_ts)
                          /\ open' = None
                          /\ ema' = 0
                          /\ neg_streak' = 0
                          /\ soft_score' = 0
                          /\ published' = pub1
                          /\ UNCHANGED counter
                     ELSE /\ open' = Some(inc)
                          /\ neg_streak' = neg
                          /\ ema' = ema1
                          /\ soft_score' = soft1
                          /\ pending_close' = pc1
                          /\ pending_close_time' = pct1
                          /\ published' = pub1
                          /\ UNCHANGED counter
            ELSE /\ ema' = ema1
                 /\ soft_score' = soft1
                 /\ pending_close' = pc1
                 /\ pending_close_time' = pct1
                 /\ published' = pub1
                 /\ UNCHANGED <<counter, neg_streak, open>>

\* Mutant of flush: only the pending close is published; a still-open
\* incident is dropped without a close.
flush_drops_open ==
    /\ published' = IF pending_close # None
                    THEN Append(published, Pub(TOPIC_CLOSE_BASE, Val(pending_close)))
                    ELSE published
    /\ pending_close' = None
    /\ pending_close_time' = None
    /\ open' = None
    /\ UNCHANGED <<counter, ema, neg_streak, last_vts, soft_score>>

\* Mutant of flush: the open incident's close is published but _open is not
\* reset.
flush_keeps_open ==
    /\ published' =
          LET pub1 == IF pending_close # None
                      THEN Append(published, Pub(TOPIC_CLOSE_BASE, Val(pending_close)))
                      ELSE published
          IN  IF open # None
              THEN Append(pub1, Pub(TOPIC_CLOSE_BASE, FlushOpenEvent(Val(open))))
              ELSE pub1
    /\ pending_close' = None
    /\ pending_close_time' = None
    /\ UNCHANGED <<counter, ema, neg_streak, last_vts, soft_score, open>>

(***************************************************************************)
(* AccidentAggregator.flush()                                              *)
(***************************************************************************)
\* Mutant of flush: the pending close is dropped, not published.
flush_loses_pending ==
    /\ published' = IF open # None
                    THEN Append(published,
                                Pub(TOPIC_CLOSE_BASE, FlushOpenEvent(Val(open))))
                    ELSE published
    /\ pending_close' = None
    /\ pending_close_time' = None
    /\ open' = None
    /\ UNCHANGED <<counter, ema, neg_streak, last_vts, soft_score>>

flush ==
    LET pub1 == IF pending_close # None
                THEN Append(published, Pub(TOPIC_CLOSE_BASE, Val(pending_close)))
                ELSE published
        pub2 == IF open # None
                THEN Append(pub1, Pub(TOPIC_CLOSE_BASE, FlushOpenEvent(Val(open))))
                ELSE pub1
    IN
    /\ published' = pub2
    /\ pending_close' = None
    /\ pending_close_time' = IF pending_close # None THEN None ELSE pending_close_time
    /\ open' = None
    /\ UNCHANGED <<counter, ema, neg_streak, last_vts, soft_score>>

(***************************************************************************)
(* AccidentAggregator.run: one detection taken from accident:<cam> and     *)
(* processed.  The first detection is at vts 0; each later one is a step   *)
(* after the previous.                                                     *)
(***************************************************************************)
RunStep ==
    /\ flushes = 0
    /\ ndet < MaxDet
    /\ \E conf \in Confs :
       \E d \in (IF last_vts = None THEN GridSteps ELSE Steps) :
          LET vts == IF last_vts = None THEN 0 ELSE Val(last_vts) + d
              r   == IF last_conf = Some(conf) THEN runs ELSE runs + 1
              g   == IF d \in GridSteps THEN gaps ELSE gaps + 1
          IN  /\ r <= MaxRuns
              /\ g <= MaxGaps
              /\ Process(Detection(vts, conf, ndet))
              /\ profile' = NextProfile(profile, conf, ndet)
              /\ last_conf' = Some(conf)
              /\ runs' = r
              /\ gaps' = g
    /\ ndet' = ndet + 1
    /\ lastOp' = "process"
    /\ UNCHANGED <<flushes, mgrVars, restVars>>

(***************************************************************************)
(* The session coordinator's call of flush() at the end of the session.    *)
(***************************************************************************)
FlushCall ==
    /\ flushes < MaxFlush
    /\ flush
    /\ flushes' = flushes + 1
    /\ lastOp' = "flush"
    /\ UNCHANGED <<envVars, mgrVars, restVars>>

Next == RunStep \/ FlushCall

Spec == Init /\ [][Next]_vars

(***************************************************************************)
(* The session layer: SessionManager.register / start_all / stop_all over  *)
(* SingleFileSession, for the one camera.  start creates a fresh           *)
(* AccidentAggregator with SessionManager.GLOBAL_SSE_ID as session id;     *)
(* stop cancels the session's tasks, and the session's coroutine, woken by *)
(* the cancellation of the task it awaits, calls aggregator.flush().       *)
(***************************************************************************)
register ==
    /\ CameraId \notin INTENDED
    /\ INTENDED' = INTENDED \cup {CameraId}
    /\ UNCHANGED <<aggState, published, envVars, flushes, lastOp, SESSIONS, starts,
                   restVars>>

start_all ==
    /\ INTENDED # {}
    /\ CameraId \in INTENDED
    /\ CameraId \notin SESSIONS
    /\ starts < MaxStarts
    \* AccidentAggregator(camera_id, bus, session_id=GLOBAL_SSE_ID)
    /\ counter' = 0
    /\ ema' = 0
    /\ neg_streak' = 0
    /\ open' = None
    /\ last_vts' = None
    /\ soft_score' = 0
    /\ pending_close' = None
    /\ pending_close_time' = None
    \* a new stream: its detections start over
    /\ ndet' = 0
    /\ flushes' = 0
    /\ lastOp' = "init"
    /\ profile' = "quiet"
    /\ last_conf' = None
    /\ runs' = 0
    /\ gaps' = 0
    /\ SESSIONS' = SESSIONS \cup {CameraId}
    /\ starts' = starts + 1
    /\ UNCHANGED <<published, INTENDED, restVars>>

stop_all ==
    /\ CameraId \in SESSIONS
    /\ flush
    /\ flushes' = flushes + 1
    /\ lastOp' = "flush"
    /\ SESSIONS' = SESSIONS \ {CameraId}
    /\ INTENDED' = INTENDED \ {CameraId}
    /\ UNCHANGED <<envVars, starts, restVars>>

SessionRunStep ==
    /\ CameraId \in SESSIONS
    /\ ndet < MaxSessionDet
    /\ RunStep

SessionNext == register \/ start_all \/ SessionRunStep \/ stop_all

SpecSession == Init /\ [][SessionNext]_vars

(***************************************************************************)
(* The bus (src/events/bus.py): AsyncBus and _Subscriber.                  *)
(*                                                                         *)
(* A _Subscriber is known by its identity: its index in subscribers.  Its  *)
(* record keeps, next to the fields of the object (mode, the queue and its *)
(* capacity), the topic and the kind of the scope that created it and      *)
(* whether that scope is still active.  All coroutines of the bus run on   *)
(* one event loop; the lock is never held across an await, so every bus    *)
(* operation runs to its end once it has started, and is one action.       *)
(* An item is [topic, seq]: seq numbers the publishes in publish order.    *)
(* Of what a consumer took, the model keeps the last item (last_taken), or *)
(* for the merged queue the whole sequence; a scope that has exited leaves *)
(* queues nobody can reach, and the model forgets their content.           *)
(***************************************************************************)
MaxSubs  == 2
MaxPub   == 3

TopicOpen  == topic_for(TOPIC_OPEN_BASE, CameraId)
TopicClose == topic_for(TOPIC_CLOSE_BASE, CameraId)
Topics == {TopicOpen, TopicClose}
Modes == {"fifo", "latest"}
\* maxsize arguments of subscribe: 0 is clamped to 1
MaxSizes == {0, 1, 2}
\* topic lists of subscribe_many, and its maxsize arguments
ManyTopics == {<<TopicOpen, TopicClose>>, <<TopicClose>>}
ManyMaxSizes == {0, 1, 2}

Range(f) == {f[i] : i \in DOMAIN f}

(***************************************************************************)
(* _Subscriber.__init__                                                    *)
(***************************************************************************)
_Subscriber(topic, mode, maxsize, scope) ==
    LET m   == IF mode = "latest" THEN "latest" ELSE "fifo"
        cap == IF m = "latest" THEN 1 ELSE Max(1, maxsize)
    IN  [topic |-> topic, mode |-> m, cap |-> cap, queue |-> <<>>,
         scope |-> scope, state |-> "active"]

\* Mutant of put_nowait: the call is "await queue.put(item)", which waits
\* while the queue is full.
put_nowait_awaits(q, cap, item) ==
    IF Len(q) >= cap
    THEN [exc |-> "", queue |-> q, done |-> FALSE]
    ELSE [exc |-> "", queue |-> Append(q, item), done |-> TRUE]

(***************************************************************************)
(* asyncio.Queue.put_nowait / get_nowait on a queue of capacity cap >= 1,  *)
(* as deliver calls them: the exception raised (or ""), the queue after    *)
(* the call, and whether the call came back without waiting.               *)
(***************************************************************************)
put_nowait(q, cap, item) ==
    IF Len(q) >= cap
    THEN [exc |-> "QueueFull", queue |-> q, done |-> TRUE]
    ELSE [exc |-> "", queue |-> Append(q, item), done |-> TRUE]

get_nowait(q) ==
    IF q = <<>>
    THEN [exc |-> "QueueEmpty", queue |-> q, done |-> TRUE]
    ELSE [exc |-> "", queue |-> Tail(q), done |-> TRUE]

\* await queue.put(item) can proceed: maxsize <= 0 is an unbounded queue.
put_ready(q, maxsize) == maxsize <= 0 \/ Len(q) < maxsize

\* Mutant of deliver: a full fifo queue keeps its items and drops the new one.
deliver_drops_newest(sub, item) ==
    IF sub.mode = "latest"
    THEN [exc |-> "", queue |-> <<item>>, done |-> TRUE]
    ELSE LET r1 == put_nowait(sub.queue, sub.cap, item)
         IN  IF r1.exc = "QueueFull"
             THEN [exc |-> "", queue |-> sub.queue, done |-> TRUE]
             ELSE r1

\* Mutant of deliver: on a full fifo queue the new item takes the place of
\* the oldest one, at the head.
deliver_at_head(sub, item) ==
    IF sub.mode = "latest"
    THEN [exc |-> "", queue |-> <<item>>, done |-> TRUE]
    ELSE LET r1 == put_nowait(sub.queue, sub.cap, item)
         IN  IF r1.exc = "QueueFull"
             THEN [exc |-> "", queue |-> <<item>> \o Tail(sub.queue), done |-> TRUE]
             ELSE r1

(***************************************************************************)
(* _Subscriber.deliver(item): the exception that leaves it (or ""), the    *)
(* queue after it, and whether it came back without waiting.               *)
(***************************************************************************)
deliver(sub, item) ==
    IF sub.mode = "latest"
    THEN LET \* if self.queue.full(): get_nowait(), QueueEmpty passed
             g1 == IF Len(sub.queue) >= sub.cap
                   THEN get_nowait(sub.queue)
                   ELSE [exc |-> "", queue |-> sub.queue, done |-> TRUE]
             r1 == put_nowait(g1.queue, sub.cap, item)
             \* except QueueFull: drain the queue, put_nowait, QueueFull passed
             r2 == put_nowait(<<>>, sub.cap, item)
         IN  IF r1.exc = "QueueFull"
             THEN [exc |-> "", queue |-> r2.queue,
                   done |-> g1.done /\ r1.done /\ r2.done]
             ELSE [exc |-> r1.exc, queue |-> r1.queue, done |-> g1.done /\ r1.done]
    ELSE LET r1 == put_nowait(sub.queue, sub.cap, item)
             \* except QueueFull: get_nowait (QueueEmpty passed), put_nowait
             \* (QueueFull passed)
             g2 == get_nowait(sub.queue)
             r2 == put_nowait(g2.queue, sub.cap, item)
         IN  IF r1.exc = "QueueFull"
             THEN [exc |-> "", queue |-> r2.queue,
                   done |-> r1.done /\ g2.done /\ r2.done]
             ELSE r1

\* self._topics.get(topic, []) as a list of subscriber identities
SubsOf(tt, topic) == IF topic \in DOMAIN tt THEN tt[topic] ELSE <<>>

\* self._topics.setdefault(topic, []).append(sub)
setdefault_append(tt, topic, s) ==
    [t \in DOMAIN tt \cup {topic} |->
        IF t = topic THEN Append(SubsOf(tt, topic), s) ELSE tt[t]]

\* self._topics.pop(topic, None)
pop(tt, topic) == [t \in DOMAIN tt \ {topic} |-> tt[t]]

\* lst.remove(s): the first element equal to s goes; ValueError when absent
\* (both callers skip or pass it)
remove(lst, s) ==
    IF s \notin Range(lst) THEN lst
    ELSE LET k == CHOOSE i \in DOMAIN lst :
                     lst[i] = s /\ \A j \in 1..(i - 1) : lst[j] # s
         IN  SubSeq(lst, 1, k - 1) \o SubSeq(lst, k + 1, Len(lst))

\* Mutant of unsubscribe: the topic's entry is dropped with whoever is on it.
unsubscribe_pops_topic(tt, topic, s) == pop(tt, topic)

\* Mutant of unsubscribe: an emptied list stays in the table.
unsubscribe_keeps_entry(tt, topic, s) ==
    IF topic \notin DOMAIN tt THEN tt
    ELSE [tt EXCEPT ![topic] = remove(tt[topic], s)]

(***************************************************************************)
(* subscribe's finally block, on the topic table.                          *)
(***************************************************************************)
unsubscribe(tt, topic, s) ==
    IF topic \notin DOMAIN tt THEN tt
    ELSE LET lst == remove(tt[topic], s)
         IN  IF lst = <<>> THEN pop(tt, topic) ELSE [tt EXCEPT ![topic] = lst]

(***************************************************************************)
(* subscribe_many's finally block, for one (topic, sub) pair.              *)
(***************************************************************************)
unsubscribe_many(tt, topic, s) ==
    IF topic \notin DOMAIN tt THEN tt
    ELSE LET lst == IF tt[topic] # <<>> /\ s \in Range(tt[topic])
                    THEN remove(tt[topic], s) ELSE tt[topic]
         IN  IF lst = <<>> THEN pop(tt, topic) ELSE [tt EXCEPT ![topic] = lst]

RECURSIVE unsubscribe_all_skips_last(_, _, _)
\* Mutant of unsubscribe_all: the loop stops one pair short.
unsubscribe_all_skips_last(tt, ss, i) ==
    IF i >= Len(ss) THEN tt
    ELSE unsubscribe_all_skips_last(
             unsubscribe_many(tt, subscribers[ss[i]].topic, ss[i]), ss, i + 1)

RECURSIVE unsubscribe_all(_, _, _)
\* for (t, s) in zip(topics, subs): unsubscribe_many
unsubscribe_all(tt, ss, i) ==
    IF i > Len(ss) THEN tt
    ELSE unsubscribe_all(unsubscribe_many(tt, subscribers[ss[i]].topic, ss[i]),
                         ss, i + 1)

RECURSIVE register_all(_, _, _, _)
\* for t in topics: self._topics.setdefault(t, []).append(sub), the subs
\* being the objects n + 1, n + 2, ...
register_all(tt, topics, n, i) ==
    IF i > Len(topics) THEN tt
    ELSE register_all(setdefault_append(tt, topics[i], n + i), topics, n, i + 1)

(***************************************************************************)
(* AsyncBus.subscribe(topic, mode, maxsize): entering the scope.           *)
(***************************************************************************)
subscribe(topic, mode, maxsize) ==
    LET s == Len(subscribers) + 1
    IN  /\ subscribers' = Append(subscribers,
                                 _Subscriber(topic, mode, maxsize, "subscribe"))
        /\ last_taken' = Append(last_taken, None)
        /\ _topics' = setdefault_append(_topics, topic, s)

(***************************************************************************)
(* AsyncBus.subscribe: the scope of subscriber s exits (normally, by an    *)
(* exception or by cancellation: the finally block runs on each).          *)
(***************************************************************************)
subscribe_exit(s) ==
    /\ subscribers[s].scope = "subscribe"
    /\ subscribers[s].state = "active"
    /\ _topics' = unsubscribe(_topics, subscribers[s].topic, s)
    /\ subscribers' = [subscribers EXCEPT ![s].state = "exited",
                                          ![s].queue = <<>>]
    /\ last_taken' = [last_taken EXCEPT ![s] = None]

(***************************************************************************)
(* AsyncBus.publish(topic, item)                                           *)
(***************************************************************************)
publish(topic, item) ==
    LET subs == Range(SubsOf(_topics, topic))
    IN  /\ \A s \in subs : deliver(subscribers[s], item).done
        \* an exception of deliver is caught: except Exception: continue
        /\ subscribers' =
              [s \in DOMAIN subscribers |->
                  IF s \in subs
                  THEN [subscribers[s] EXCEPT
                           !.queue = deliver(subscribers[s], item).queue]
                  ELSE subscribers[s]]

(***************************************************************************)
(* AsyncBus.close_topic(topic)                                             *)
(***************************************************************************)
close_topic(topic) == _topics' = pop(_topics, topic)

(***************************************************************************)
(* AsyncBus.subscribe_many(topics, mode, maxsize): entering the scope.     *)
(***************************************************************************)
subscribe_many(topics, mode, maxsize) ==
    LET n == Len(subscribers)
    IN  /\ merged_q' = <<>>
        /\ merged_maxsize' = maxsize
        /\ subscribers' = subscribers \o
              [i \in 1..Len(topics) |->
                  _Subscriber(topics[i], mode, maxsize, "subscribe_many")]
        /\ last_taken' = last_taken \o [i \in 1..Len(topics) |-> None]
        /\ many_subs' = [i \in 1..Len(topics) |-> n + i]
        /\ _topics' = register_all(_topics, topics, n, 1)
        /\ forward_tasks' = [i \in 1..Len(topics) |-> [pc |-> "get", item |-> None]]
        /\ many_state' = "active"

(***************************************************************************)
(* subscribe_many.forward(sub), task i: item = await sub.queue.get(), then *)
(* await merged_q.put(item), which waits with the item in hand while       *)
(* merged_q is full.                                                       *)
(***************************************************************************)
forward_get(i) ==
    LET s == many_subs[i]
        item == Head(subscribers[s].queue)
    IN  /\ forward_tasks[i].pc = "get"
        /\ subscribers[s].queue # <<>>
        /\ subscribers' = [subscribers EXCEPT ![s].queue = Tail(@)]
        /\ IF put_ready(merged_q, merged_maxsize)
           THEN /\ merged_q' = Append(merged_q, item)
                /\ UNCHANGED forward_tasks
           ELSE /\ forward_tasks' = [forward_tasks EXCEPT
                                        ![i] = [pc |-> "put", item |-> Some(item)]]
                /\ UNCHANGED merged_q

forward_put(i) ==
    /\ forward_tasks[i].pc = "put"
    /\ put_ready(merged_q, merged_maxsize)
    /\ merged_q' = Append(merged_q, Val(forward_tasks[i].item))
    /\ forward_tasks' = [forward_tasks EXCEPT ![i] = [pc |-> "get", item |-> None]]

(***************************************************************************)
(* subscribe_many's finally block.  task.cancel(); await task for each     *)
(* task in turn: the scope waits for the task to end, and other tasks run  *)
(* meanwhile; a cancelled forwarder returns, and the item it held is gone. *)
(* After the last task has ended the subscribers are removed.              *)
(***************************************************************************)
subscribe_many_exit ==
    LET live == {i \in DOMAIN forward_tasks : forward_tasks[i].pc # "done"}
    IN  IF live # {}
        THEN LET i == CHOOSE k \in live : \A j \in live : k <= j
             IN  /\ forward_tasks' = [forward_tasks EXCEPT
                                         ![i] = [pc |-> "done", item |-> None]]
                 /\ many_state' = "exiting"
                 /\ UNCHANGED <<_topics, subscribers, merged_q, merged_taken>>
        ELSE /\ _topics' = unsubscribe_all(_topics, many_subs, 1)
             /\ subscribers' =
                   [s \in DOMAIN subscribers |->
                       IF s \in Range(many_subs)
                       THEN [subscribers[s] EXCEPT !.state = "exited",
                                                   !.queue = <<>>]
                       ELSE subscribers[s]]
             /\ many_state' = "exited"
             /\ merged_q' = <<>>
             /\ merged_taken' = <<>>
             /\ UNCHANGED forward_tasks

(***************************************************************************)
(* The bus with its clients: scopes entered and left, items published and  *)
(* taken, topics closed.                                                   *)
(***************************************************************************)
Subscribe ==
    /\ Len(subscribers) < MaxSubs
    /\ \E t \in Topics, mode \in Modes, maxsize \in MaxSizes :
          subscribe(t, mode, maxsize)
    /\ UNCHANGED <<sent, many_state, many_subs, merged_maxsize, merged_q,
                   forward_tasks, merged_taken, aggVars, srcVars,
                   smpVars, detVars, ctlVars>>

SubscribeExit ==
    /\ \E s \in DOMAIN subscribers : subscribe_exit(s)
    /\ UNCHANGED <<sent, many_state, many_subs, merged_maxsize, merged_q,
                   forward_tasks, merged_taken, aggVars, srcVars,
                   smpVars, detVars, ctlVars>>

\* The consumer of a subscribe scope: await queue.get()
Get ==
    /\ \E s \in DOMAIN subscribers :
          /\ subscribers[s].scope = "subscribe"
          /\ subscribers[s].state = "active"
          /\ subscribers[s].queue # <<>>
          /\ last_taken' = [last_taken EXCEPT ![s] = Some(Head(subscribers[s].queue))]
          /\ subscribers' = [subscribers EXCEPT ![s].queue = Tail(@)]
    /\ UNCHANGED <<_topics, sent, many_state, many_subs, merged_maxsize,
                   merged_q, forward_tasks, merged_taken, aggVars, srcVars,
                   smpVars, detVars, ctlVars>>

Publish ==
    /\ sent < MaxPub
    /\ \E t \in Topics : publish(t, [topic |-> t, seq |-> sent + 1])
    /\ sent' = sent + 1
    /\ UNCHANGED <<_topics, last_taken, many_state, many_subs, merged_maxsize,
                   merged_q, forward_tasks, merged_taken, aggVars, srcVars,
                   smpVars, detVars, ctlVars>>

\* close_topic of a topic that has no entry changes nothing
CloseTopic ==
    /\ \E t \in DOMAIN _topics : close_topic(t)
    /\ UNCHANGED <<subscribers, sent, last_taken, many_state, many_subs,
                   merged_maxsize, merged_q, forward_tasks, merged_taken,
                   aggVars, srcVars,
                   smpVars, detVars, ctlVars>>

SubscribeMany ==
    /\ many_state = "none"
    /\ \E topics \in ManyTopics, mode \in Modes, maxsize \in ManyMaxSizes :
          /\ Len(subscribers) + Len(topics) <= MaxSubs
          /\ subscribe_many(topics, mode, maxsize)
    /\ UNCHANGED <<sent, merged_taken, aggVars, srcVars,
                   smpVars, detVars, ctlVars>>

\* A forwarder runs until it is cancelled.
ForwardGet ==
    /\ many_state \in {"active", "exiting"}
    /\ \E i \in DOMAIN forward_tasks : forward_get(i)
    /\ UNCHANGED <<_topics, sent, last_taken, many_state, many_subs,
                   merged_maxsize, merged_taken, aggVars, srcVars,
                   smpVars, detVars, ctlVars>>

ForwardPut ==
    /\ many_state \in {"active", "exiting"}
    /\ \E i \in DOMAIN forward_tasks : forward_put(i)
    /\ UNCHANGED <<_topics, subscribers, sent, last_taken, many_state, many_subs,
                   merged_maxsize, merged_taken, aggVars, srcVars,
                   smpVars, detVars, ctlVars>>

\* The consumer of the subscribe_many scope: await merged_q.get()
MergedGet ==
    /\ many_state = "active"
    /\ merged_q # <<>>
    /\ merged_taken' = Append(merged_taken, Head(merged_q))
    /\ merged_q' = Tail(merged_q)
    /\ UNCHANGED <<_topics, subscribers, sent, last_taken, many_state, many_subs,
                   merged_maxsize, forward_tasks, aggVars, srcVars,
                   smpVars, detVars, ctlVars>>

SubscribeManyExit ==
    /\ many_state \in {"active", "exiting"}
    /\ subscribe_many_exit
    /\ UNCHANGED <<sent, last_taken, many_subs, merged_maxsize, aggVars, srcVars,
                   smpVars, detVars, ctlVars>>

\* The bus under subscribe scopes.
BusNext == Subscribe \/ SubscribeExit \/ Get \/ Publish \/ CloseTopic

SpecBus == Init /\ [][BusNext]_vars

\* The bus under a subscribe_many scope.
ManyNext ==
    \/ SubscribeMany \/ Publish \/ CloseTopic \/ ForwardGet \/ ForwardPut
    \/ MergedGet \/ SubscribeManyExit

SpecMany == Init /\ [][ManyNext]_vars

(***************************************************************************)
(* Properties.                                                             *)
(***************************************************************************)
OpenIdx  == {i \in DOMAIN published : published[i].ev.type = "accident_open"}
CloseIdx == {i \in DOMAIN published : published[i].ev.type = "accident_close"}
Id(i)    == published[i].ev.incident_id

\* A step in which flush() is called.
FlushStep == lastOp' = "flush" /\ flushes' = flushes + 1

(* C1: detections processed by one aggregator, then flush(): every         *)
(* accident_open (on accidents.open:<cam>) is followed by exactly one      *)
(* accident_close (on accidents.close:<cam>) with the same incident_id,    *)
(* also when the session ends with the incident open or its close          *)
(* pending; no accident_close precedes its accident_open, and none is      *)
(* published twice.                                                        *)
C1_OpenThenOneClose ==
    /\ \A i \in OpenIdx : published[i].topic = "accidents.open:cam-1"
    /\ \A j \in CloseIdx :
          /\ published[j].topic = "accidents.close:cam-1"
          /\ \E i \in OpenIdx : i < j /\ Id(i) = Id(j)
    /\ \A j, k \in CloseIdx : Id(j) = Id(k) => j = k
    /\ lastOp = "flush" =>
          \A i \in OpenIdx : \E j \in CloseIdx : j > i /\ Id(j) = Id(i)

\* After the flush: one incident was closed by a stashed close and another
\* was still open when the session ended.
C1_Witness ==
    /\ lastOp = "flush"
    /\ Cardinality(OpenIdx) = 2
    /\ \E j, k \in CloseIdx :
          /\ "reason" \in DOMAIN published[j].ev
          /\ "reason" \notin DOMAIN published[k].ev

\* A detection that meets the open condition while a close is pending and
\* arrives within merge_gap of the pending close.
C2_MergeStep ==
    /\ pending_close # None
    /\ ndet' = ndet + 1
    /\ soft_score' >= 7500
    /\ Val(last_conf') >= 1500
    /\ Val(last_vts') - Val(pending_close_time) <= 4000

C2_MergeEffect ==
    /\ published' = published
    /\ pending_close' = None
    /\ counter' = counter
    /\ open' # None
    /\ Val(open').id = Val(pending_close).incident_id
    /\ Val(open').start_ts = Val(pending_close).start_ts

\* Every published close carries the id and the start of a published open.
C2_CloseKeepsOrigin ==
    \A j \in CloseIdx :
       \E i \in OpenIdx :
          /\ i < j
          /\ Id(i) = Id(j)
          /\ published[j].ev.start_ts = published[i].ev.pts_in_video

\* Two incidents are never opened within merge_gap of each other.
C2_OneOpenPerWindow ==
    \A i, k \in OpenIdx :
       i < k => published[k].ev.pts_in_video - published[i].ev.pts_in_video > 4000

(* C2: a detection meeting the open condition within merge_gap of a        *)
(* pending close reopens the same incident: nothing is published, the      *)
(* pending close is discarded, the open incident carries the pending       *)
(* close's incident_id and start_ts and no new number is consumed; every   *)
(* close published carries its open's id and start; two opens are never    *)
(* within merge_gap, so a dropout shorter than merge_gap gives one open    *)
(* and one close.                                                          *)
C2_MergeReopen ==
    /\ [][C2_MergeStep => C2_MergeEffect]_vars
    /\ [](C2_CloseKeepsOrigin /\ C2_OneOpenPerWindow)

\* An incident reopened by a merge is open: it started at its published
\* open, and was rebuilt at a later frame.
C2_Witness ==
    /\ open # None
    /\ Cardinality(OpenIdx) = 1
    /\ \E i \in OpenIdx :
          /\ Id(i) = Val(open).id
          /\ Val(open).start_ts = published[i].ev.pts_in_video
          /\ Val(open).start_idx > published[i].ev.frame_idx

(* C3: no accident_open is published while the aggregator processes its    *)
(* first warmup_frames = 20 detections.                                    *)
C3_NoOpenInWarmup == ndet <= 20 => OpenIdx = {}

(* C4: one detection of confidence 0.95 with detections of confidence 0.01 *)
(* before and after it produces no accident_open.                          *)
C4_IsolatedSpikeNoOpen == profile = "spiked" => OpenIdx = {}

(* C5: every published accident_close has end_ts >= start_ts and           *)
(* peak_confidence >= min_open_conf; every one that is not the flush of a  *)
(* still-open incident has duration_sec >= min_duration.                   *)
C5_CloseBounds ==
    \A j \in CloseIdx :
       LET e == published[j].ev IN
       /\ e.end_ts >= e.start_ts
       /\ e.peak_confidence >= 1500
       /\ "reason" \notin DOMAIN e => e.duration_sec >= 150

\* A stashed close was published by the expiry of the merge window.
C5_Witness ==
    /\ lastOp = "process"
    /\ \E j \in CloseIdx :
          /\ "reason" \notin DOMAIN published[j].ev
          /\ published[j].ev.duration_sec >= 150

(* C6: within one aggregator the numeric suffixes of the incident_ids of   *)
(* successive accident_opens strictly increase; a merge reopen consumes no *)
(* number: the counter is the number of opens published, and the open      *)
(* incident or the pending close carries the id of the last open.          *)
C6_IdsIncrease ==
    /\ \A i, k \in OpenIdx : i < k => SuffixNum(Id(i)) < SuffixNum(Id(k))
    /\ Cardinality(OpenIdx) = counter
    /\ open # None => SuffixNum(Val(open).id) = counter
    /\ pending_close # None => SuffixNum(Val(pending_close).incident_id) = counter

C6_Witness ==
    /\ Cardinality(OpenIdx) = 2
    /\ counter = 2
    /\ open # None

(* C7: no two distinct incidents published with the same session_id and    *)
(* camera_id carry the same incident_id, also across a stop and a new      *)
(* start of the camera's session.                                          *)
C7_IncidentIdUnique ==
    \A i, k \in OpenIdx :
       (/\ i # k
        /\ published[i].ev.session_id = published[k].ev.session_id
        /\ published[i].ev.camera_id = published[k].ev.camera_id)
       => Id(i) # Id(k)

(* C8: flush() leaves no open incident and no pending close, and a flush() *)
(* right after a flush() publishes nothing.                                *)
C8_FlushIdempotent ==
    [][FlushStep =>
         /\ open' = None
         /\ pending_close' = None
         /\ pending_close_time' = None
         /\ (lastOp = "flush" => published' = published)]_vars

\* Two flushes, the first of which closed an open incident.
C8_Witness ==
    /\ flushes = 2
    /\ published # <<>>
    /\ "reason" \in DOMAIN published[Len(published)].ev

(* C9: flush() with an incident open publishes exactly one accident_close  *)
(* for it, with reason "flush_open" and the incident's current start_ts,   *)
(* end_ts, peak_confidence and pos_frames; with a close pending instead,   *)
(* it publishes that close unchanged; with neither, nothing.               *)
C9_FlushPublishes ==
    [][FlushStep =>
         /\ open # None =>
              /\ Len(published') = Len(published) + 1
              /\ SubSeq(published', 1, Len(published)) = published
              /\ LET p == published'[Len(published')] IN
                 /\ p.topic = "accidents.close:cam-1"
                 /\ p.ev.type = "accident_close"
                 /\ p.ev.reason = "flush_open"
                 /\ p.ev.incident_id = Val(open).id
                 /\ p.ev.start_ts = Val(open).start_ts
                 /\ p.ev.end_ts = Val(open).end_ts
                 /\ p.ev.peak_confidence = Val(open).peak_conf
                 /\ p.ev.pos_frames = Val(open).pos_frames
         /\ (open = None /\ pending_close # None) =>
              published' = Append(published,
                                  [topic |-> "accidents.close:cam-1",
                                   ev |-> Val(pending_close)])
         /\ (open = None /\ pending_close = None) => published' = published]_vars

\* A flush closed an incident that had grown since it was opened.
C9_Witness ==
    /\ lastOp = "flush"
    /\ flushes = 1
    /\ published # <<>>
    /\ LET e == published[Len(published)].ev IN
       /\ "reason" \in DOMAIN e
       /\ e.end_ts > e.start_ts
       /\ e.pos_frames >= 2

(* C10: every accident_close published, on every path, has exactly the     *)
(* fields type, camera_id, incident_id, session_id, frame_idx,             *)
(* pts_in_video, confidence, start_ts, end_ts, duration_sec,               *)
(* peak_confidence, pos_frames, with pts_in_video = end_ts.                *)
C10_CloseShape ==
    \A j \in CloseIdx :
       LET e == published[j].ev IN
       /\ DOMAIN e = {"type", "camera_id", "incident_id", "session_id",
                      "frame_idx", "pts_in_video", "confidence", "start_ts",
                      "end_ts", "duration_sec", "peak_confidence", "pos_frames"}
       /\ e.pts_in_video = e.end_ts

(***************************************************************************)
(* Properties of the bus.                                                  *)
(***************************************************************************)
\* The subscribers on the topic table, and those of them on topic t.
Registered == UNION {Range(_topics[t]) : t \in DOMAIN _topics}
RegisteredOn(t) == Range(SubsOf(_topics, t))

Full(s) == Len(subscribers[s].queue) >= subscribers[s].cap

\* The items of q are in publish order, without repetition.
Increasing(q) == \A i, j \in DOMAIN q : i < j => q[i].seq < q[j].seq

\* The items of q were published on topic t.
PublishedOn(q, t) == \A i \in DOMAIN q : q[i].topic = t /\ q[i].seq \in 1..sent

RECURSIVE OnTopic(_, _)
\* The items of q that carry topic t, in the order of q.
OnTopic(q, t) ==
    IF q = <<>> THEN <<>>
    ELSE (IF Head(q).topic = t THEN <<Head(q)>> ELSE <<>>) \o OnTopic(Tail(q), t)

\* What subscriber s still holds comes after what its consumer took last.
QueueInOrder(s) ==
    LET q == last_taken[s] \o subscribers[s].queue
    IN  Increasing(q) /\ PublishedOn(q, subscribers[s].topic)

(* C11: publish(topic, item) never waits for a subscriber and never        *)
(* raises: in every state of the bus, whatever the subscribers' queues     *)
(* hold (full, never consumed, fifo or latest), publish on every topic can *)
(* run to its end at once, and deliver leaves no exception to it.          *)
C11_PublishNeverBlocks ==
    \A t \in Topics :
       LET item == [topic |-> t, seq |-> sent + 1]
       IN  /\ ENABLED publish(t, item)
           /\ \A s \in RegisteredOn(t) :
                 /\ deliver(subscribers[s], item).done
                 /\ deliver(subscribers[s], item).exc = ""

\* A topic with a full fifo queue of capacity 2 nobody consumed from and a
\* full latest queue.
C11_Witness ==
    \E s1, s2 \in Registered :
       /\ subscribers[s1].topic = subscribers[s2].topic
       /\ subscribers[s1].mode = "fifo" /\ subscribers[s1].cap = 2
       /\ Full(s1) /\ last_taken[s1] = None
       /\ subscribers[s2].mode = "latest" /\ Full(s2)

\* The capacity of a fifo subscriber is max(1, maxsize).
C12_Capacity ==
    \A m \in MaxSizes :
       _Subscriber(TopicOpen, "fifo", m, "subscribe").cap = (IF m < 1 THEN 1 ELSE m)

C12_Bounded ==
    \A s \in DOMAIN subscribers :
       subscribers[s].mode = "fifo" =>
          /\ subscribers[s].cap >= 1
          /\ Len(subscribers[s].queue) <= subscribers[s].cap
          /\ QueueInOrder(s)

\* A publish: the new item goes to the tail of every fifo queue on its
\* topic, and a full queue loses its head for it.
C12_PublishStep ==
    \A t \in Topics :
       (sent' = sent + 1 /\ publish(t, [topic |-> t, seq |-> sent'])) =>
          \A s \in RegisteredOn(t) :
             subscribers[s].mode = "fifo" =>
                subscribers'[s].queue =
                   Append(IF Full(s) THEN Tail(subscribers[s].queue)
                                     ELSE subscribers[s].queue,
                          [topic |-> t, seq |-> sent'])

(* C12: a fifo subscriber has capacity n = max(1, maxsize); after any      *)
(* publishes and consumer gets its queue holds at most n items; a publish  *)
(* that finds the queue full removes the oldest queued item and enqueues   *)
(* the new one at the tail, so the queue holds, in publish order, the most *)
(* recently published items its consumer has not taken.                    *)
C12_FifoDropsOldest ==
    /\ [](C12_Capacity /\ C12_Bounded)
    /\ [][C12_PublishStep]_vars

\* Subscriber 1, fifo of capacity 2, was on the topic before item 1 was
\* published (subscriber 2, created later, took item 1); it has taken
\* nothing and holds items 2 and 3: item 1 was dropped for item 3.
C12_Witness ==
    /\ Len(subscribers) = 2
    /\ subscribers[1].mode = "fifo" /\ subscribers[1].cap = 2
    /\ subscribers[1].topic = subscribers[2].topic
    /\ 1 \in Registered
    /\ last_taken[1] = None
    /\ last_taken[2] = Some([topic |-> subscribers[1].topic, seq |-> 1])
    /\ subscribers[1].queue = <<[topic |-> subscribers[1].topic, seq |-> 2],
                                [topic |-> subscribers[1].topic, seq |-> 3]>>

\* What has gone through subscribe_many's subscriber i and what it holds:
\* taken from merged_q, waiting in merged_q, in the forwarder's hand, in
\* the subscriber's queue.
Pipeline(i) ==
    LET s == many_subs[i]
        t == subscribers[s].topic
    IN  OnTopic(merged_taken, t) \o OnTopic(merged_q, t)
           \o forward_tasks[i].item \o subscribers[s].queue

(* C13: for each (topic, subscriber) the items taken from the subscriber's *)
(* queue are items published on the topic, in publish order and without   *)
(* repetition (what the queue holds comes after what was taken); per topic *)
(* the same holds through subscribe_many: what the consumer took from the  *)
(* merged queue, what waits in it, what the forwarder holds and what the   *)
(* subscriber's queue holds are, in this order, in publish order.          *)
C13_PublishOrder ==
    /\ \A s \in DOMAIN subscribers :
          subscribers[s].state = "active" => QueueInOrder(s)
    /\ many_state \in {"active", "exiting"} =>
          \A i \in DOMAIN many_subs :
             /\ Increasing(Pipeline(i))
             /\ PublishedOn(Pipeline(i), subscribers[many_subs[i]].topic)
    /\ \A k \in DOMAIN merged_q \cup DOMAIN merged_taken :
          \E i \in DOMAIN many_subs :
             LET q == merged_taken \o merged_q
             IN  (q[k].topic = subscribers[many_subs[i]].topic)

\* Both topics listed; the consumer took items 1 and 3 of one topic from
\* the merged queue and nothing is on the way: item 2 was dropped.
C13_Witness ==
    /\ many_state = "active"
    /\ Len(many_subs) = 2
    /\ Len(merged_taken) = 2
    /\ merged_taken[1].seq = 1 /\ merged_taken[2].seq = 3
    /\ merged_taken[1].topic = merged_taken[2].topic
    /\ merged_q = <<>>
    /\ \A i \in DOMAIN many_subs :
          /\ forward_tasks[i].item = None
          /\ subscribers[many_subs[i]].queue = <<>>
          /\ many_subs[i] \in Registered

C14_NoResidue ==
    /\ \A s \in DOMAIN subscribers :
          subscribers[s].state = "exited" => s \notin Registered
    /\ \A t \in DOMAIN _topics : _topics[t] # <<>>

\* A scope exit: the table loses the exiting subscriber and nothing else,
\* and no other subscriber changes.
C14_ExitStep ==
    \A s \in DOMAIN subscribers :
       (subscribers[s].state = "active" /\ subscribers'[s].state = "exited") =>
          /\ \A t \in Topics :
                RegisteredOn(t) \ {s} = Range(SubsOf(_topics', t))
          /\ \A x \in DOMAIN subscribers \ {s} : subscribers'[x] = subscribers[x]

(* C14: after a subscribe(topic) scope has exited (normally, by an         *)
(* exception or by cancellation) no list of the topic table holds its      *)
(* subscriber, and no topic has an entry with an empty list; the exit      *)
(* leaves every other subscriber on its topic and unchanged.               *)
C14_ScopeExit ==
    /\ []C14_NoResidue
    /\ [][C14_ExitStep]_vars

\* Subscriber 1 has exited; subscriber 2, on the same topic, is still
\* registered and holds an item.
C14_Witness ==
    /\ Len(subscribers) = 2
    /\ subscribers[1].state = "exited"
    /\ subscribers[2].state = "active"
    /\ subscribers[1].topic = subscribers[2].topic
    /\ 2 \in RegisteredOn(subscribers[2].topic)
    /\ subscribers[2].queue # <<>>

C15_AfterExit ==
    many_state = "exited" =>
       /\ \A i \in DOMAIN forward_tasks : forward_tasks[i].pc = "done"
       /\ \A i \in DOMAIN many_subs : many_subs[i] \notin Registered

C15_Merged ==
    /\ merged_maxsize >= 1 => Len(merged_q) <= merged_maxsize
    /\ \A i \in DOMAIN forward_tasks :
          (forward_tasks[i].pc = "put") = (forward_tasks[i].item # None)

\* Entering the scope: one new subscriber per listed topic, each on its
\* topic's list, and one forwarder per subscriber.
C15_EnterStep ==
    (many_state = "none" /\ many_state' = "active") =>
       /\ Len(many_subs') >= 1
       /\ Len(subscribers') = Len(subscribers) + Len(many_subs')
       /\ Len(forward_tasks') = Len(many_subs')
       /\ \A i \in DOMAIN many_subs' :
             /\ many_subs'[i] = Len(subscribers) + i
             /\ many_subs'[i] \in Range(SubsOf(_topics',
                                              subscribers'[many_subs'[i]].topic))
             /\ forward_tasks'[i].pc = "get"
       /\ \A i, j \in DOMAIN many_subs' :
             i # j => subscribers'[many_subs'[i]].topic
                         # subscribers'[many_subs'[j]].topic

(* C15: subscribe_many(topics) registers one subscriber per listed topic   *)
(* with one forwarder each, which move the subscribers' items into one     *)
(* merged queue that never holds more than maxsize items (maxsize >= 1; a  *)
(* forwarder holds an item exactly while it waits to put it); once its     *)
(* scope has exited, every forwarder has ended and none of its subscribers *)
(* is on any topic's list.                                                 *)
C15_SubscribeMany ==
    /\ [](C15_AfterExit /\ C15_Merged)
    /\ [][C15_EnterStep]_vars

\* The scope over both topics has exited after items went through it.
C15_Witness ==
    /\ many_state = "exited"
    /\ Len(many_subs) = 2
    /\ sent >= 2
    /\ _topics = <<>>

\* Subscriber s was dropped by close_topic: its scope is active and it is
\* on no list.
Dropped(s) == subscribers[s].state = "active" /\ s \notin Registered

\* close_topic(t): the entry of t goes, no scope exits.
C16_CloseStep ==
    \A t \in DOMAIN _topics :
       (t \notin DOMAIN _topics' /\ \A s \in RegisteredOn(t) :
                                       subscribers'[s].state = "active") =>
          /\ \A s \in RegisteredOn(t) : ~(s \in UNION {Range(_topics'[u]) : u \in DOMAIN _topics'})
          /\ \A u \in DOMAIN _topics \ {t} :
                u \in DOMAIN _topics' /\ _topics'[u] = _topics[u]

\* A dropped subscriber stays dropped, its queue receives nothing, and its
\* scope's exit leaves the table as it is.
C16_DroppedStep ==
    \A s \in DOMAIN subscribers :
       Dropped(s) =>
          /\ s \notin UNION {Range(_topics'[u]) : u \in DOMAIN _topics'}
          /\ \/ subscribers'[s].queue = subscribers[s].queue
             \/ subscribers[s].queue # <<>>
                /\ subscribers'[s].queue = Tail(subscribers[s].queue)
             \/ subscribers'[s].state = "exited"
          /\ subscribers'[s].state = "exited" => _topics' = _topics

(* C16: close_topic(t) leaves t without subscribers and the other topics   *)
(* as they were; an item published on t afterwards reaches no queue that   *)
(* was subscribed before the close; the later scope exit of a dropped      *)
(* subscriber removes no subscriber registered on t after the close.       *)
C16_CloseTopic == [][C16_CloseStep /\ C16_DroppedStep]_vars

\* Subscriber 1 was dropped and has received nothing since; subscriber 2,
\* registered on the same topic after the close, holds an item published
\* after it.
C16_Witness ==
    /\ Len(subscribers) = 2
    /\ Dropped(1)
    /\ subscribers[1].topic = subscribers[2].topic
    /\ 2 \in RegisteredOn(subscribers[2].topic)
    /\ subscribers[1].queue = <<>> /\ last_taken[1] = None
    /\ subscribers[2].queue # <<>>

(***************************************************************************)
(* The frame source and the equal-time resampler                           *)
(* (src/events/frame_discrete.py).                                         *)
(*                                                                         *)
(* Time (pts_in_video, vts, step, jitter_epsilon) is in ticks of 1/30000   *)
(* s, in which one step of the 15 fps grid (2000), the frame periods of    *)
(* the source rates of the model and jitter_epsilon = 1e-4 s (3) are       *)
(* whole numbers; the rounding of the float additions is not modelled.     *)
(* The pixels of a frame (rgb) are known by the index of the raw frame     *)
(* that carries them.  What is published on a topic is a Python value:     *)
(* Some(frame), or None.                                                   *)
(***************************************************************************)
TicksPerSec    == 30000
TARGET_FPS     == 15      \* target_fps: float = 15.0
JITTER_EPSILON == 3       \* jitter_epsilon: float = 1e-4 (s)
RAW_MAXSIZE    == 64      \* bus.subscribe(topic_in, mode="fifo", maxsize=64)

MaxRaw  == 4      \* frames the source reads
MaxFail == 1      \* failed reads of a live source

\* cap.get(CAP_PROP_FPS) of the sources: unknown, slower and faster than
\* target_fps
SrcFps == {0, 10, 30}
\* time between two reads when pts comes from the monotonic clock (ticks)
MonoSteps == {900, 4100}

\* step = 1.0 / max(1e-3, target_fps)
step == TicksPerSec \div TARGET_FPS

\* The Frame run_frame_source_raw builds from its frame_idx-th image.
RawFrame(idx, pts) ==
    [camera_id |-> CameraId, rgb |-> idx, frame_idx |-> idx,
     pts_in_video |-> pts, vts |-> pts]

\* Mutant of EmittedFrame: the raw frame's index and time are passed on.
EmittedFrame_raw(f, idx, nv) ==
    [camera_id |-> f.camera_id, rgb |-> f.rgb, frame_idx |-> f.frame_idx,
     pts_in_video |-> f.pts_in_video, vts |-> f.pts_in_video]

\* The Frame the resampler builds from raw frame f at grid point nv.
EmittedFrame(f, idx, nv) ==
    [camera_id |-> f.camera_id, rgb |-> f.rgb, frame_idx |-> idx,
     pts_in_video |-> f.pts_in_video, vts |-> nv]

\* Mutant of sample: "if" for "while", one grid point per raw frame at most.
sample_once(f, nv, idx, out) ==
    IF f.pts_in_video + JITTER_EPSILON >= nv
    THEN [next_vts |-> nv + step, sample_idx |-> idx + 1,
          out |-> Append(out, EmittedFrame(f, idx, nv))]
    ELSE [next_vts |-> nv, sample_idx |-> idx, out |-> out]

RECURSIVE sample(_, _, _, _)
\* while t_real + jitter_epsilon >= next_vts: publish, sample_idx += 1,
\* next_vts += step
sample(f, nv, idx, out) ==
    IF f.pts_in_video + JITTER_EPSILON >= nv
    THEN sample(f, nv + step, idx + 1, Append(out, EmittedFrame(f, idx, nv)))
    ELSE [next_vts |-> nv, sample_idx |-> idx, out |-> out]

\* bus.publish on frames_raw:<cam>: to the resampler's queue if it is
\* subscribed
PublishRaw(item) ==
    IF smp_state = "running"
    THEN deliver([mode |-> "fifo", cap |-> RAW_MAXSIZE, queue |-> raw_q],
                 item).queue
    ELSE raw_q

(***************************************************************************)
(* run_frame_source_raw: opening the source.  cv2.VideoCapture(...) does   *)
(* not raise when the source cannot be opened and the code never asks      *)
(* cap.isOpened(): the loop is entered either way.  A capture that is not  *)
(* open reports 0 for CAP_PROP_FPS.                                        *)
(***************************************************************************)
SourceOpen ==
    /\ src_state = "init"
    /\ src_state' = "running"
    /\ opened' \in BOOLEAN
    /\ is_file' \in BOOLEAN
    /\ src_fps' \in (IF opened' THEN SrcFps ELSE {0})
    /\ UNCHANGED <<frame_idx, read_fails, raw_log, smpVars, busVars, aggVars, detVars, ctlVars>>

(***************************************************************************)
(* run_frame_source_raw: one turn of the loop with a frame read.           *)
(***************************************************************************)
SourceRead ==
    /\ src_state = "running"
    /\ opened
    /\ frame_idx < MaxRaw
    /\ \E d \in MonoSteps :
          LET last == IF raw_log = <<>> THEN 0
                      ELSE Val(raw_log[Len(raw_log)]).pts_in_video
              pts  == IF src_fps > 0
                      THEN frame_idx * (TicksPerSec \div src_fps)
                      ELSE last + d
              f    == RawFrame(frame_idx, pts)
          IN  /\ raw_log' = Append(raw_log, Some(f))
              /\ raw_q' = PublishRaw(Some(f))
    /\ frame_idx' = frame_idx + 1
    /\ UNCHANGED <<src_state, opened, is_file, src_fps, read_fails, smp_state,
                   next_vts, sample_idx, taken_raw, frames_out, busVars,
                   aggVars, detVars, ctlVars>>

(***************************************************************************)
(* run_frame_source_raw: cap.read() fails.  A file source leaves the loop  *)
(* and releases the capture; a live source sleeps and reads again.         *)
(***************************************************************************)
SourceReadFails ==
    /\ src_state = "running"
    /\ IF is_file
       THEN /\ src_state' = "finished"
            /\ UNCHANGED read_fails
       ELSE /\ read_fails < MaxFail
            /\ read_fails' = read_fails + 1
            /\ UNCHANGED src_state
    /\ UNCHANGED <<opened, is_file, src_fps, frame_idx, raw_log, smpVars,
                   busVars, aggVars, detVars, ctlVars>>

(***************************************************************************)
(* run_sampler_equal_time_vts: the subscription to frames_raw:<cam>.       *)
(***************************************************************************)
SamplerSubscribe ==
    /\ smp_state = "init"
    /\ smp_state' = "running"
    /\ UNCHANGED <<raw_q, next_vts, sample_idx, taken_raw, frames_out, srcVars,
                   busVars, aggVars, detVars, ctlVars>>

(***************************************************************************)
(* run_sampler_equal_time_vts: one turn of the loop, for the item taken    *)
(* from the queue.  The code reads f.pts_in_video of whatever it takes:    *)
(* on None that raises AttributeError, which ends the task.                *)
(***************************************************************************)
SamplerStep ==
    /\ smp_state = "running"
    /\ raw_q # <<>>
    /\ raw_q' = Tail(raw_q)
    /\ IF Head(raw_q) = None
       THEN /\ smp_state' = "failed"
            /\ next_vts' = IF next_vts = None THEN Some(0) ELSE next_vts
            /\ UNCHANGED <<sample_idx, taken_raw, frames_out>>
       ELSE LET f == Val(Head(raw_q))
                r == sample(f, IF next_vts = None THEN 0 ELSE Val(next_vts),
                            sample_idx, frames_out)
            IN  /\ next_vts' = Some(r.next_vts)
                /\ sample_idx' = r.sample_idx
                /\ frames_out' = r.out
                /\ taken_raw' = Append(taken_raw, f)
                /\ UNCHANGED smp_state
    /\ UNCHANGED <<srcVars, busVars, aggVars, detVars, ctlVars>>

(***************************************************************************)
(* SingleFileSession._start: once the source task has ended, the session   *)
(* cancels the resampler, which leaves its subscription.                   *)
(***************************************************************************)
SamplerCancel ==
    /\ src_state = "finished"
    /\ smp_state \in {"init", "running"}
    /\ smp_state' = "cancelled"
    /\ raw_q' = <<>>
    /\ UNCHANGED <<next_vts, sample_idx, taken_raw, frames_out, srcVars,
                   busVars, aggVars, detVars, ctlVars>>

SamplerNext ==
    \/ SourceOpen \/ SourceRead \/ SourceReadFails
    \/ SamplerSubscribe \/ SamplerStep \/ SamplerCancel

SpecSampler == Init /\ [][SamplerNext]_vars

(***************************************************************************)
(* Properties of the frame source and the resampler.                       *)
(***************************************************************************)
\* The places in frames_out of the frames that carry the pixels of raw
\* frame f.
Emissions(f) == {k \in DOMAIN frames_out : frames_out[k].rgb = f.rgb}

\* The grid points after lo, up to hi.
GridPoints(lo, hi) == {g \in 0..(hi \div step) : g * step > lo /\ g * step <= hi}

\* The pts of the raw frame the resampler took before its j-th (-1 - eps
\* before the first: the grid starts at 0).
PrevPts(j) ==
    IF j = 1 THEN 0 - 1 - JITTER_EPSILON ELSE taken_raw[j - 1].pts_in_video

(* C17: the k-th frame (k = 0, 1, 2, ...) the resampler publishes on       *)
(* frames:<cam> has frame_idx = k and vts = k / target_fps, whatever raw   *)
(* frames with non-decreasing pts it took: vts starts at 0 and grows by    *)
(* one step per emitted frame, without a gap.                              *)
C17_UniformGrid ==
    /\ \A k \in DOMAIN frames_out :
          /\ frames_out[k].frame_idx = k - 1
          /\ frames_out[k].vts * 15 = (k - 1) * 30000
    /\ sample_idx = Len(frames_out)
    /\ next_vts # None => Val(next_vts) * 15 = sample_idx * 30000

\* Five frames are out, from raw frames a slower source (10 fps) sent.
C17_Witness ==
    /\ src_fps = 10
    /\ Len(frames_out) = 5
    /\ frames_out[5].vts = 8000
    /\ Len(taken_raw) >= 3

C19_SentinelOnEOF ==
    /\ src_state = "finished" =>
          /\ is_file
          /\ raw_log # <<>>
          /\ raw_log[Len(raw_log)] = None
          /\ smp_state = "running" => (raw_q # <<>> /\ raw_q[Len(raw_q)] = None)

(***************************************************************************)
(* The multi-stream detector                                               *)
(* (src/events/Accident_detect/accident_detector.py): the collectors, and  *)
(* the turns of the main loop of run_accident_detector_multi.  A frame on  *)
(* frames:<cam> is the k-th of its camera; what the engine returns for an  *)
(* image is any of Results.                                                *)
(***************************************************************************)
BUF_MAXLEN == 128     \* deque(maxlen=128)

MaxFrames == 3        \* frames a collector takes

\* camera_ids
Cams == <<"cam-1", "cam-2">>
\* batch_size arguments
BatchSizes == {1, 2, 4}

\* Mutant of deque_append: the frame is put at the head of the buffer.
deque_appendleft(q, f) ==
    IF Len(q) >= BUF_MAXLEN THEN <<f>> \o SubSeq(q, 1, Len(q) - 1)
    ELSE <<f>> \o q

\* bufs[cam].append(f) on a deque of maxlen BUF_MAXLEN
deque_append(q, f) ==
    IF Len(q) >= BUF_MAXLEN THEN Append(Tail(q), f) ELSE Append(q, f)

RECURSIVE assemble_greedy(_, _, _, _)
\* Mutant of assemble: a camera whose frame was taken stays at the head of
\* the round.
assemble_greedy(batch, cams_round, b, bs) ==
    IF ~(Len(batch) < bs /\ cams_round # <<>>)
    THEN [batch_items |-> batch, bufs |-> b]
    ELSE LET cam    == Head(cams_round)
             q      == b[cam]
             batch1 == IF q # <<>>
                       THEN Append(batch, [cam |-> cam, frame |-> Head(q)])
                       ELSE batch
             b1     == IF q # <<>> THEN [b EXCEPT ![cam] = Tail(q)] ELSE b
             round1 == IF q # <<>> THEN cams_round
                       ELSE Append(Tail(cams_round), cam)
         IN  IF \A c \in Range(Cams) : b1[c] = <<>>
             THEN [batch_items |-> batch1, bufs |-> b1]
             ELSE assemble_greedy(batch1, round1, b1, bs)

RECURSIVE assemble(_, _, _, _)
\* while len(batch_items) < batch_size and cams_round: the round-robin
\* loop, from (batch_items, cams_round, bufs)
assemble(batch, cams_round, b, bs) ==
    IF ~(Len(batch) < bs /\ cams_round # <<>>)
    THEN [batch_items |-> batch, bufs |-> b]
    ELSE LET cam    == Head(cams_round)
             q      == b[cam]
             batch1 == IF q # <<>>
                       THEN Append(batch, [cam |-> cam, frame |-> Head(q)])
                       ELSE batch
             b1     == IF q # <<>> THEN [b EXCEPT ![cam] = Tail(q)] ELSE b
             round1 == Append(Tail(cams_round), cam)
         IN  IF \A c \in Range(Cams) : b1[c] = <<>>
             THEN [batch_items |-> batch1, bufs |-> b1]
             ELSE assemble(batch1, round1, b1, bs)

\* What infer_batch returns for one image: the confidences of its boxes.
Results == {<<>>, <<1799>>, <<100, 1800>>}

\* Mutant of box_conf: the first box for the best one.
box_conf_first(res) ==
    IF Len(res) = 0 THEN 0 ELSE res[1]

\* conf = float(confs.max().item()), 0.0 without boxes
box_conf(res) ==
    IF Len(res) = 0 THEN 0
    ELSE CHOOSE m \in Range(res) : \A x \in Range(res) : x <= m

\* The Frame on frames:<cam> at grid point k.
DetFrame(cam, k) ==
    [camera_id |-> cam, ts_unix |-> 1000 + k, rgb |-> k, frame_idx |-> k,
     pts_in_video |-> k * step + 1000, vts |-> k * step]

\* The Detection published for item it with result res, and its topic.
DetectorDetection(it, res) ==
    [topic |-> topic_for("accident", it.cam),
     det |-> [type |-> "accident", camera_id |-> it.cam,
              ts_unix |-> it.frame.ts_unix,
              happened |-> (box_conf(res) >= DECISION_THRESH),
              confidence |-> box_conf(res),
              frame_idx |-> it.frame.frame_idx,
              pts_in_video |-> it.frame.pts_in_video,
              vts |-> it.frame.vts]]

RECURSIVE cancel_collectors(_, _)
\* finally: for t in collectors: t.cancel(); try: await t; except Exception:
\* pass.  Awaiting a cancelled task raises CancelledError, which is not an
\* Exception: it leaves the loop.
cancel_collectors(col, i) ==
    IF i > Len(Cams) THEN col
    ELSE IF col[Cams[i]] = "subscribed"
         THEN [col EXCEPT ![Cams[i]] = "exited"]
         ELSE cancel_collectors(col, i + 1)

(***************************************************************************)
(* run_accident_detector_multi: the start, up to the loop.                 *)
(***************************************************************************)
DetectorStart ==
    /\ det_state = "init"
    /\ det_state' = "running"
    /\ batch_size' \in BatchSizes
    /\ bufs' = [c \in Range(Cams) |-> <<>>]
    /\ collected' = [c \in Range(Cams) |-> 0]
    /\ collectors' = [c \in Range(Cams) |-> "subscribed"]
    /\ accident_last' = [c \in Range(Cams) |-> None]
    /\ UNCHANGED <<batch_items, det_published, results, turn_outcome, busVars,
                   srcVars, smpVars, aggVars, ctlVars>>

(***************************************************************************)
(* _collector(cam): the next frame of frames:<cam> goes to bufs[cam].      *)
(***************************************************************************)
Collect ==
    /\ det_state # "init"
    /\ \E cam \in Range(Cams) :
          /\ collectors[cam] = "subscribed"
          /\ collected[cam] < MaxFrames
          /\ bufs' = [bufs EXCEPT ![cam] =
                         deque_append(@, DetFrame(cam, collected[cam]))]
          /\ collected' = [collected EXCEPT ![cam] = @ + 1]
    /\ UNCHANGED <<det_state, batch_size, batch_items, det_published,
                   accident_last, collectors, results, turn_outcome, busVars, srcVars,
                   smpVars, aggVars, ctlVars>>

(***************************************************************************)
(* run_accident_detector_multi: one turn of the main loop.  An empty batch *)
(* ends the turn (sleep, continue); else the batch is inferred and one     *)
(* Detection per item is published on accident:<cam>.                      *)
(***************************************************************************)
DetectorTurn ==
    /\ det_state = "running"
    /\ LET r == assemble(<<>>, Cams, bufs, batch_size)
       IN  /\ batch_items' = r.batch_items
           /\ bufs' = r.bufs
           /\ results' \in [DOMAIN r.batch_items -> Results]
           /\ det_published' =
                 [i \in DOMAIN r.batch_items |->
                     DetectorDetection(r.batch_items[i], results'[i])]
           /\ accident_last' =
                 [c \in Range(Cams) |->
                     LET mine == {i \in DOMAIN r.batch_items :
                                     r.batch_items[i].cam = c}
                     IN  IF mine = {} THEN accident_last[c]
                         ELSE Some(r.batch_items[
                                 CHOOSE i \in mine : \A k \in mine : k <= i
                              ].frame.vts)]
           /\ turn_outcome' = IF r.batch_items = <<>> THEN "empty"
                              ELSE "published"
    /\ UNCHANGED <<det_state, batch_size, collected, collectors, busVars,
                   srcVars, smpVars, aggVars, ctlVars>>

(***************************************************************************)
(* A turn of the main loop in which infer_batch raises: the exception      *)
(* leaves the loop through the finally block, and the task ends.           *)
(***************************************************************************)
InferRaises ==
    /\ det_state = "running"
    /\ LET r == assemble(<<>>, Cams, bufs, batch_size)
       IN  /\ r.batch_items # <<>>
           /\ batch_items' = r.batch_items
           /\ bufs' = r.bufs
    /\ results' = <<>>
    /\ det_published' = <<>>
    /\ turn_outcome' = "raised"
    /\ collectors' = cancel_collectors(collectors, 1)
    /\ det_state' = "failed"
    /\ UNCHANGED <<batch_size, collected, accident_last, busVars, srcVars,
                   smpVars, aggVars, ctlVars>>

(***************************************************************************)
(* The detector task is cancelled, between two turns of its loop:          *)
(* CancelledError leaves the loop through the finally block.               *)
(***************************************************************************)
DetectorCancel ==
    /\ det_state = "running"
    /\ collectors' = cancel_collectors(collectors, 1)
    /\ det_state' = "cancelled"
    /\ UNCHANGED <<batch_size, bufs, collected, batch_items, det_published,
                   accident_last, results, turn_outcome, busVars, srcVars,
                   smpVars, aggVars, ctlVars>>

DetectorNext ==
    DetectorStart \/ Collect \/ DetectorTurn \/ InferRaises \/ DetectorCancel

SpecDetector == Init /\ [][DetectorNext]_vars

(***************************************************************************)
(* The detector on endless streams.  _collector(cam) as in Collect, for a  *)
(* stream that does not end: frame_idx is kept modulo IdxWrap and a buffer *)
(* holds MaxLiveBuf frames at most, so that the frames of a buffer stay    *)
(* distinct and the states finite.  The scheduler is fair to the main      *)
(* loop; when a frame arrives is up to the camera.                         *)
(***************************************************************************)
MaxLiveBuf == 1
IdxWrap == 2

CollectLive ==
    /\ det_state # "init"
    /\ \E cam \in Range(Cams) :
          /\ collectors[cam] = "subscribed"
          /\ Len(bufs[cam]) < MaxLiveBuf
          /\ bufs' = [bufs EXCEPT ![cam] =
                         deque_append(@, DetFrame(cam, collected[cam]))]
          /\ collected' = [collected EXCEPT ![cam] = (@ + 1) % IdxWrap]
    /\ UNCHANGED <<det_state, batch_size, batch_items, det_published,
                   accident_last, collectors, results, turn_outcome, busVars, srcVars,
                   smpVars, aggVars, ctlVars>>

LiveNext == DetectorStart \/ CollectLive \/ DetectorTurn

SpecDetectorLive == Init /\ [][LiveNext]_vars /\ WF_vars(DetectorTurn)

(***************************************************************************)
(* The detector pool (src/api/detector_pool.py): MultiDetectorPool.        *)
(***************************************************************************)
MaxPoolOps == 6

\* the cameras that join and leave, in sorted order
PoolCams == <<"cam-1", "cam-2", "cam-3">>

\* cameras(): sorted(self._active)
cameras(active) == SelectSeq(PoolCams, LAMBDA c : c \in active)

\* _restart: self._task afterwards.  A live task is cancelled and awaited;
\* the await raises CancelledError, which "except Exception" lets through,
\* and the rest of _restart is not run.
_restart(task, active) ==
    IF task # None /\ task.state # "done"
    THEN [task EXCEPT !.state = "done"]
    ELSE IF cameras(active) # <<>>
         THEN [camera_ids |-> cameras(active), state |-> "created"]
         ELSE None

ensure_join ==
    /\ pool_ops < MaxPoolOps
    /\ \E camera_id \in Range(PoolCams) :
          /\ camera_id \notin _active
          /\ _active' = _active \cup {camera_id}
          /\ _task' = _restart(_task, _active')
    /\ pool_ops' = pool_ops + 1
    /\ UNCHANGED <<engine_loads, busVars, srcVars, smpVars, detVars, aggVars, coordVars,
                   loopVars>>

ensure_leave ==
    /\ pool_ops < MaxPoolOps
    /\ \E camera_id \in _active :
          /\ _active' = _active \ {camera_id}
          /\ _task' = _restart(_task, _active')
    /\ pool_ops' = pool_ops + 1
    /\ UNCHANGED <<engine_loads, busVars, srcVars, smpVars, detVars, aggVars, coordVars,
                   loopVars>>

\* The task _restart created starts to run: run_accident_detector_multi up
\* to its loop, engine = _YOLOEngine() first.
PoolTaskRun ==
    /\ _task # None
    /\ _task.state = "created"
    /\ _task' = [_task EXCEPT !.state = "running"]
    /\ engine_loads' = engine_loads + 1
    /\ UNCHANGED <<_active, pool_ops, busVars, srcVars, smpVars, detVars,
                   aggVars, coordVars, loopVars>>

PoolNext == ensure_join \/ ensure_leave \/ PoolTaskRun

SpecPool == Init /\ [][PoolNext]_vars

(***************************************************************************)
(* The camera sessions under the session manager, for several cameras      *)
(* (src/api/session_manager.py, src/events/camera_pipeline.py).            *)
(*                                                                         *)
(* register, start_all and stop_all run in the caller's thread and hand    *)
(* coroutines to the background loop (run_coroutine_threadsafe); the       *)
(* coroutines _start and _stop of a session, its three tasks and the       *)
(* detector task run on the loop, one step (from one await to the next)    *)
(* at a time.  A camera is registered once.  log keeps, per camera, the    *)
(* steps of its shutdown in the order they happened.                       *)
(***************************************************************************)
\* SingleFileSession.__init__, with the state of its coroutines and tasks
NewSession ==
    [_running |-> FALSE, start |-> "none", stop |-> "none", src |-> "none",
     smp |-> "none", agg |-> "none", log |-> <<>>]

\* list(rt.INTENDED.keys()), list(rt.SESSIONS.keys())
keys(d) == SelectSeq(reg_order, LAMBDA c : c \in d)

\* t.cancel(): a task that has ended stays as it is
cancel(t) == IF t = "running" THEN "cancelling" ELSE t

\* The task has ended.
done(t) == t \in {"finished", "raised", "cancelled"}

register_cam ==
    /\ \E cid \in Range(Cams) :
          /\ cid \notin Range(reg_order)
          /\ reg_order' = Append(reg_order, cid)
          /\ INTENDED' = INTENDED \cup {cid}
    /\ UNCHANGED <<session, SESSIONS, DETECTOR_TASK, detectors, aggState,
                   published, flushes, lastOp, envVars, starts, busVars,
                   srcVars, smpVars, detVars, poolVars, loopVars>>

(***************************************************************************)
(* SessionManager.start_all: a session for every registered camera that    *)
(* has none, its _start handed to the loop; the detector task is created   *)
(* only when there is none (or it has ended), for the cameras of then.     *)
(***************************************************************************)
start_sessions ==
    /\ INTENDED # {}
    /\ SESSIONS' = SESSIONS \cup INTENDED
    /\ session' = [c \in DOMAIN session \cup (INTENDED \ SESSIONS) |->
                      IF c \in INTENDED \ SESSIONS
                      THEN [NewSession EXCEPT !.start = "scheduled"]
                      ELSE session[c]]
    /\ IF \/ DETECTOR_TASK = None
          \/ done(detectors[Val(DETECTOR_TASK)].state)
       THEN /\ detectors' = Append(detectors,
                                   [camera_ids |-> keys(SESSIONS'),
                                    state |-> "scheduled",
                                    collectors |-> <<>>])
            /\ DETECTOR_TASK' = Some(Len(detectors) + 1)
       ELSE UNCHANGED <<DETECTOR_TASK, detectors>>
    /\ UNCHANGED <<reg_order, INTENDED, aggState, published, flushes, lastOp,
                   envVars, starts, busVars, srcVars, smpVars, detVars,
                   poolVars, loopVars>>

(***************************************************************************)
(* SessionManager.stop_all: stop() of every session (its _stop is handed   *)
(* to the loop when the session is running), the cameras forgotten; then   *)
(* the detector task is cancelled.                                         *)
(***************************************************************************)
stop_sessions ==
    /\ SESSIONS # {}
    /\ session' = [c \in DOMAIN session |->
                      IF c \in SESSIONS /\ session[c]._running
                      THEN [session[c] EXCEPT !.stop = "scheduled"]
                      ELSE session[c]]
    /\ SESSIONS' = {}
    /\ INTENDED' = INTENDED \ SESSIONS
    /\ IF DETECTOR_TASK # None
       THEN /\ detectors' = [detectors EXCEPT ![Val(DETECTOR_TASK)].state = cancel(
                                 IF @ = "scheduled" THEN "running" ELSE @)]
            /\ DETECTOR_TASK' = None
       ELSE UNCHANGED <<DETECTOR_TASK, detectors>>
    /\ UNCHANGED <<reg_order, aggState, published, flushes, lastOp, envVars,
                   starts, busVars, srcVars, smpVars, detVars, poolVars,
                   loopVars>>

\* What the steps of the loop leave alone.
loopRest == <<reg_order, INTENDED, SESSIONS, DETECTOR_TASK, aggState,
              published, flushes, lastOp, envVars, starts, busVars, srcVars,
              smpVars, detVars, poolVars, loopVars>>

(***************************************************************************)
(* _start, up to "await t_src": the aggregator and the three tasks.        *)
(***************************************************************************)
StartRun ==
    /\ \E c \in DOMAIN session :
          /\ session[c].start = "scheduled"
          /\ session' = [session EXCEPT ![c]._running = TRUE,
                                        ![c].src = "running",
                                        ![c].smp = "running",
                                        ![c].agg = "running",
                                        ![c].start = "await_src"]
    /\ UNCHANGED <<detectors, loopRest>>

\* run_frame_source_raw ends: the file is over, or an error leaves it.
SourceEnds ==
    /\ \E c \in DOMAIN session : \E how \in {"finished", "raised"} :
          /\ session[c].src = "running"
          /\ session' = [session EXCEPT ![c].src = how]
    /\ UNCHANGED <<detectors, loopRest>>

\* self._tasks = [t_src, t_smp, t_agg]
TaskNames == <<"src", "smp", "agg">>

\* A cancelled task of a session ends.  The loop wakes the tasks in the
\* order in which they were cancelled, and _stop cancels them in the order
\* of self._tasks.
TaskCancelled ==
    /\ \E c \in DOMAIN session : \E k \in DOMAIN TaskNames :
          /\ session[c][TaskNames[k]] = "cancelling"
          /\ \A j \in 1..(k - 1) : session[c][TaskNames[j]] # "cancelling"
          /\ session' = [session EXCEPT ![c][TaskNames[k]] = "cancelled",
                            ![c].log = IF TaskNames[k] = "smp"
                                       THEN Append(@, "smp_done") ELSE @]
    /\ UNCHANGED <<detectors, loopRest>>

(***************************************************************************)
(* _start after "await t_src": the sampler is cancelled when the source    *)
(* has finished; CancelledError leads to flush(), another exception to the *)
(* print; then "finally".                                                  *)
(***************************************************************************)
StartAfterSource ==
    /\ \E c \in DOMAIN session :
          /\ session[c].start = "await_src"
          /\ done(session[c].src)
          /\ session' =
               [session EXCEPT ![c] =
                  CASE @.src = "finished" ->
                         [@ EXCEPT !.smp = cancel(@), !.start = "await_smp",
                                   !.log = Append(@, "smp_cancel")]
                    [] @.src = "cancelled" ->
                         [@ EXCEPT !.log = Append(@, "flush"),
                                   !._running = FALSE, !.start = "done"]
                    [] @.src = "raised" ->
                         [@ EXCEPT !._running = FALSE, !.start = "done"]]
    /\ UNCHANGED <<detectors, loopRest>>

\* _start after the gather of t_smp: the sleep begins.
StartAfterSampler ==
    /\ \E c \in DOMAIN session :
          /\ session[c].start = "await_smp"
          /\ done(session[c].smp)
          /\ session' = [session EXCEPT ![c].start = "sleep"]
    /\ UNCHANGED <<detectors, loopRest>>

\* _start after the sleep: flush(), then t_agg.cancel().
StartAfterSleep ==
    /\ \E c \in DOMAIN session :
          /\ session[c].start = "sleep"
          /\ session' = [session EXCEPT ![c].agg = cancel(@),
                            ![c].log = @ \o <<"drain", "flush", "agg_cancel">>,
                            ![c].start = "await_agg"]
    /\ UNCHANGED <<detectors, loopRest>>

\* _start after the gather of t_agg: "finally".
StartAfterAggregator ==
    /\ \E c \in DOMAIN session :
          /\ session[c].start = "await_agg"
          /\ done(session[c].agg)
          /\ session' = [session EXCEPT ![c]._running = FALSE,
                                        ![c].start = "done"]
    /\ UNCHANGED <<detectors, loopRest>>

(***************************************************************************)
(* _stop, up to its gather: every task of the session is cancelled.        *)
(***************************************************************************)
StopRun ==
    /\ \E c \in DOMAIN session :
          /\ session[c].stop = "scheduled"
          /\ session' =
               [session EXCEPT ![c] =
                  [@ EXCEPT !.src = cancel(@), !.smp = cancel(@),
                            !.agg = cancel(@), !.stop = "gather",
                            !.log = @ \o (IF session[c].smp = "running"
                                          THEN <<"smp_cancel">> ELSE <<>>)
                                      \o (IF session[c].agg = "running"
                                          THEN <<"agg_cancel">> ELSE <<>>)]]
    /\ UNCHANGED <<detectors, loopRest>>

\* _stop after its gather.
StopDone ==
    /\ \E c \in DOMAIN session :
          /\ session[c].stop = "gather"
          /\ done(session[c].src) /\ done(session[c].smp)
          /\ done(session[c].agg)
          /\ session' = [session EXCEPT ![c]._running = FALSE,
                                        ![c].stop = "done"]
    /\ UNCHANGED <<detectors, loopRest>>

(***************************************************************************)
(* The detector task: its start (a collector per camera of camera_ids),    *)
(* and its end when cancelled (the finally block of                        *)
(* run_accident_detector_multi: the first collector only).                 *)
(***************************************************************************)
DetectorTaskRun ==
    /\ \E i \in DOMAIN detectors :
          /\ detectors[i].state = "scheduled"
          /\ detectors' = [detectors EXCEPT ![i].state = "running",
                             ![i].collectors =
                                [c \in Range(detectors[i].camera_ids) |->
                                    "subscribed"]]
    /\ UNCHANGED <<session, loopRest>>

DetectorTaskCancelled ==
    /\ \E i \in DOMAIN detectors :
          /\ detectors[i].state = "cancelling"
          /\ detectors' = [detectors EXCEPT ![i].state = "cancelled",
                             ![i].collectors =
                                [c \in DOMAIN @ |->
                                    IF /\ detectors[i].camera_ids # <<>>
                                       /\ c = detectors[i].camera_ids[1]
                                    THEN "exited" ELSE @[c]]]
    /\ UNCHANGED <<session, loopRest>>

CoordNext ==
    \/ register_cam \/ start_sessions \/ stop_sessions
    \/ StartRun \/ SourceEnds \/ TaskCancelled \/ StartAfterSource
    \/ StartAfterSampler \/ StartAfterSleep \/ StartAfterAggregator
    \/ StopRun \/ StopDone \/ DetectorTaskRun \/ DetectorTaskCancelled

SpecCoord == Init /\ [][CoordNext]_vars

(***************************************************************************)
(* Properties of the detector.                                             *)
(***************************************************************************)
\* The places in batch b of the frames of camera c.
ItemsOf(b, c) == {i \in DOMAIN b : b[i].cam = c}

\* The place of camera c in camera_ids.
CamPos(c) == CHOOSE k \in DOMAIN Cams : Cams[k] = c

\* The pass in which item i of batch b was taken: its rank among the items
\* of its camera.
PassOf(b, i) == Cardinality({k \in ItemsOf(b, b[i].cam) : k <= i})

\* A turn of the main loop that took frames.
C20_BatchStep ==
    /\ det_state = "running"
    /\ \E c \in Range(Cams) : Len(bufs'[c]) < Len(bufs[c])

C20_BatchShape ==
    LET b == batch_items' IN
    /\ Len(b) >= 1
    /\ Len(b) <= batch_size
    \* per camera: the head of its buffer, in buffer order
    /\ \A c \in Range(Cams) :
          LET n == Cardinality(ItemsOf(b, c))
          IN  /\ bufs[c] = [k \in 1..n |->
                               b[CHOOSE i \in ItemsOf(b, c) : PassOf(b, i) = k].frame]
                             \o bufs'[c]
    \* one frame per camera per pass, the cameras in the order of camera_ids
    /\ \A i, j \in DOMAIN b :
          i < j => \/ PassOf(b, i) < PassOf(b, j)
                   \/ /\ PassOf(b, i) = PassOf(b, j)
                      /\ CamPos(b[i].cam) < CamPos(b[j].cam)
    \* two cameras differ by more than one frame only if the one with fewer
    \* frames has nothing left
    /\ \A c1, c2 \in Range(Cams) :
          Cardinality(ItemsOf(b, c1)) > Cardinality(ItemsOf(b, c2)) + 1
             => bufs'[c2] = <<>>

(* C20: every batch the detector assembles has between 1 and batch_size    *)
(* frames; they are taken one per camera per pass, the cameras in the      *)
(* order of camera_ids, and per camera from the head of its buffer in      *)
(* buffer order; within a batch the numbers of frames of two cameras       *)
(* differ by more than one only if the buffer of the camera with fewer     *)
(* frames is empty.                                                        *)
C20_RoundRobinBatch == [][C20_BatchStep => C20_BatchShape]_vars

\* A batch of four: three frames of cam-1 and the only frame cam-2 had.
C20_Witness ==
    /\ batch_size = 4
    /\ Len(batch_items) = 4
    /\ Cardinality(ItemsOf(batch_items, "cam-1")) = 3
    /\ Cardinality(ItemsOf(batch_items, "cam-2")) = 1
    /\ bufs["cam-2"] = <<>>

\* The last batch holds a frame of camera c.
InBatch(c) == \E i \in DOMAIN batch_items : batch_items[i].cam = c

\* Camera c has a frame in its buffer.
Waiting(c) == det_state = "running" /\ bufs[c] # <<>>

(* C21: no camera is starved: while a camera has frames in its buffer, a   *)
(* batch with a frame of that camera eventually comes (frames leave a      *)
(* buffer from its head, so every buffered frame is taken in the end),     *)
(* whatever the other cameras' buffers hold, for every batch_size >= 1,    *)
(* also one below the number of cameras.                                   *)
C21_NoStarvation ==
    \A c \in Range(Cams) : Waiting(c) ~> InBatch(c)

\* The places of batch b.
Places(b) == DOMAIN b

\* A turn of the main loop that published its batch.
C22_PublishStep ==
    /\ C20_BatchStep
    /\ det_state' = "running"

C22_OnePerFrame ==
    /\ Len(det_published') = Len(batch_items')
    /\ \A i \in Places(batch_items') :
          LET f == batch_items'[i].frame
              p == det_published'[i]
              r == results'[i]
          IN  /\ p.topic = topic_for("accident", f.camera_id)
              /\ p.det.camera_id = f.camera_id
              /\ p.det.frame_idx = f.frame_idx
              /\ p.det.pts_in_video = f.pts_in_video
              /\ p.det.vts = f.vts
              /\ p.det.ts_unix = f.ts_unix
              /\ p.det.confidence \in Range(r) \cup {0}
              /\ (r = <<>>) => p.det.confidence = 0
              /\ \A x \in Range(r) : x <= p.det.confidence
              /\ p.det.happened = (p.det.confidence >= 1800)

(* C22: a turn that infers a batch publishes, for every frame of the       *)
(* batch, one Detection on accident:<camera of the frame>, with the        *)
(* frame's frame_idx, pts_in_video, vts and ts_unix, with the confidence   *)
(* of the result paired with the frame (0 without boxes) and with happened *)
(* true exactly when that confidence is at least the decision threshold;   *)
(* it publishes nothing else.                                              *)
C22_DetectionPerFrame == [][C22_PublishStep => C22_OnePerFrame]_vars

\* A batch of both cameras: no boxes for one frame, and for another a best
\* box at the threshold behind a weaker one.
C22_Witness ==
    /\ turn_outcome = "published"
    /\ \E i, j \in Places(batch_items) :
          /\ batch_items[i].cam # batch_items[j].cam
          /\ results[i] = <<>>
          /\ det_published[i].det.happened = FALSE
          /\ results[j] = <<100, 1800>>
          /\ det_published[j].det.happened = TRUE

(* C23: an exception raised inside infer_batch is caught at the detector:  *)
(* after a turn that raised, the main loop and every collector are still   *)
(* running.                                                                *)
C23_DetectorSurvives ==
    turn_outcome = "raised" =>
        /\ det_state = "running"
        /\ \A c \in Range(Cams) : collectors[c] = "subscribed"

(* C24: when the detector task has been cancelled, every collector has     *)
(* exited and holds no subscription on frames:<cam>.                       *)
C24_CollectorsExit ==
    det_state = "cancelled" =>
        \A c \in Range(Cams) : collectors[c] = "exited"

(* C25: a camera that joins or leaves the pool only changes the detector's *)
(* set of cameras: once the engine is there, ensure_join and ensure_leave  *)
(* do not bring about another _YOLOEngine().                               *)
C25_EngineLoadedOnce == engine_loads <= 1

(***************************************************************************)
(* Properties of the camera sessions and the session manager.              *)
(***************************************************************************)
\* The places of event ev in the shutdown log of camera c.
At(c, ev) == {i \in DOMAIN session[c].log : session[c].log[i] = ev}

\* Some ev of camera c's log is before place i.
Before(c, ev, i) == \E j \in At(c, ev) : j < i

\* The coroutine _start of camera c's session has ended.
ShutDown(c) == session[c].start = "done"

\* Detector task i has a collector subscribed on frames:<c>.
Subscribed(i, c) ==
    /\ c \in DOMAIN detectors[i].collectors
    /\ detectors[i].collectors[c] = "subscribed"

(* C26: every camera whose session has been started is in the active set   *)
(* of the detector task, also a camera started while the detector task was *)
(* already running.                                                        *)
C26_StartedInActiveSet ==
    \A c \in SESSIONS :
        /\ DETECTOR_TASK # None
        /\ c \in Range(detectors[Val(DETECTOR_TASK)].camera_ids)

(* C27: once the shutdown of a camera's session has completed (after the   *)
(* end of the file or after a stop), no detector task holds a subscription *)
(* on frames:<cam>.                                                        *)
C27_ShutdownLeavesDetector ==
    \A c \in DOMAIN session :
        ShutDown(c) => \A i \in DOMAIN detectors : ~Subscribed(i, c)

(* C28: in the shutdown of a camera's session, flush() comes after the     *)
(* resampler has been cancelled and has ended and after the drain          *)
(* interval, and before the aggregator task is cancelled.                  *)
C28_ShutdownOrder ==
    \A c \in DOMAIN session : \A i \in At(c, "flush") :
        /\ Before(c, "smp_cancel", i)
        /\ Before(c, "smp_done", i)
        /\ Before(c, "drain", i)
        /\ ~Before(c, "agg_cancel", i)

(* C29: a session that has ended, on whatever path (end of the file, stop, *)
(* a source that ends with an error), has called flush() exactly once.     *)
C29_FlushOnce ==
    \A c \in DOMAIN session :
        ShutDown(c) => Cardinality(At(c, "flush")) = 1

\* stop_all cancels the detector task.
C30_DetectorCancelStep ==
    \E i \in DOMAIN detectors :
        /\ detectors[i].state \in {"scheduled", "running"}
        /\ detectors'[i].state = "cancelling"

\* The sessions of the active cameras have shut down.
C30_SessionsDown ==
    \A c \in SESSIONS :
        /\ ShutDown(c)'
        /\ done(session'[c].src) /\ done(session'[c].smp)
        /\ done(session'[c].agg)
        /\ At(c, "flush")' # {}

(* C30: on stop_all the detector task is cancelled only when the session   *)
(* of every active camera has shut down, its tasks ended and its flush     *)
(* done.                                                                   *)
C30_DetectorStoppedLast == [][C30_DetectorCancelStep => C30_SessionsDown]_vars

(***************************************************************************)
(* C31: a source that could not be opened never runs on: once              *)
(* run_frame_source_raw has tried to open it, the task has failed with an  *)
(* initialization error, and it has retried no read.                       *)
(***************************************************************************)
C31_FatalInitAborts ==
    (src_state # "init" /\ ~opened) =>
        (src_state = "failed" /\ read_fails = 0)

\* A step in which _process handles one detection.
DetectionStep == ndet' = ndet + 1 /\ lastOp' = "process"

\* What the step published, in order.
NewlyPublished == SubSeq(published', Len(published) + 1, Len(published'))

\* The detection of the step arrives more than merge_gap after the pending
\* close's end.
C32_Due ==
    /\ pending_close # None
    /\ Val(last_vts') - Val(pending_close_time) > 4000

C32_Effect ==
    LET new    == NewlyPublished
        closes == {i \in DOMAIN new : new[i].ev.type = "accident_close"}
    IN  IF C32_Due
        THEN /\ closes = {1}
             /\ new[1] = [topic |-> "accidents.close:cam-1",
                          ev |-> Val(pending_close)]
             /\ pending_close' = None
             /\ pending_close_time' = None
        ELSE closes = {}

(* C32: while detections are processed (no flush), a pending close is      *)
(* published by a detection exactly when that detection's vts exceeds the  *)
(* pending close's vts by more than merge_gap, never by an earlier one; it *)
(* is the first thing that detection publishes (before an accident_open of *)
(* the same detection), it is published once, and pending_close and        *)
(* pending_close_time are cleared by the same detection.                   *)
C32_PendingCloseExpiry == [][DetectionStep => C32_Effect]_vars

\* The last detection came 4.1 s after an incident's stashed close: it
\* published that close and, right after it, the open of the next incident.
C32_Witness ==
    /\ lastOp = "process"
    /\ Len(published) >= 3
    /\ LET k == Len(published) IN
          /\ published[k].ev.type = "accident_open"
          /\ published[k - 1].ev.type = "accident_close"
          /\ published[k].ev.incident_id # published[k - 1].ev.incident_id
          /\ published[k].ev.pts_in_video = Val(last_vts)
          /\ Val(last_vts) = published[k - 1].ev.end_ts + 4100
          /\ pending_close = None

\* What neg_streak becomes in the step, by the claim's rule.
C33_Streak ==
    LET e1 == EmaUpdate(ema, Val(last_conf'))
        near == last_vts = None \/ Val(last_vts') - Val(last_vts) <= 1200
    IN  IF e1 <= 3800000 /\ near THEN neg_streak + 1 ELSE 0

C33_Effect ==
    LET vts == Val(last_vts') IN
    IF C33_Streak >= 8 /\ vts - Val(open).start_ts >= 150
    THEN /\ pending_close' # None
         /\ Val(pending_close').incident_id = Val(open).id
         /\ pending_close_time' = Some(vts)
         /\ Val(pending_close').end_ts = vts
         /\ open' = None
         /\ ema' = 0
         /\ neg_streak' = 0
         /\ soft_score' = 0
    ELSE /\ open' # None
         /\ Val(open').id = Val(open).id
         /\ neg_streak' = C33_Streak
         /\ pending_close' = None

\* The detection of the step is handled with an incident open.
C33_OpenStep ==
    /\ DetectionStep
    /\ open # None

(* C33: a detection handled while an incident is open increments           *)
(* neg_streak exactly when the updated ema is <= exit_threshold and the    *)
(* vts gap to the previous detection is <= occlusion_grace, and resets it  *)
(* to 0 otherwise; the close is stashed exactly when neg_streak has        *)
(* reached min_end_neg_frames = 8 and end_ts - start_ts >= min_duration,   *)
(* and the stash sets pending_close_time = end_ts, clears the open         *)
(* incident and resets ema, neg_streak and soft_score to 0.                *)
C33_NegStreakAndStash == [][C33_OpenStep => C33_Effect]_vars

\* A close has just been stashed by the last detection, for an incident
\* that saw a gap of 4.1 s (more than occlusion_grace) while it was open.
C33_Witness ==
    /\ lastOp = "process"
    /\ open = None
    /\ pending_close # None
    /\ pending_close_time = last_vts
    /\ neg_streak = 0
    /\ ema = 0
    /\ soft_score = 0
    /\ Val(pending_close).end_ts - Val(pending_close).start_ts >= 4100

(* C35: in every reachable state of the aggregator an open incident and a  *)
(* pending close never exist together, pending_close is set exactly when   *)
(* pending_close_time is set, and neg_streak is 0 whenever no incident is  *)
(* open.                                                                   *)
C35_StateInvariant ==
    /\ ~(open # None /\ pending_close # None)
    /\ (pending_close # None) <=> (pending_close_time # None)
    /\ open = None => neg_streak = 0

\* Opens i and k are of consecutive incidents: no open lies between them.
C36_Consecutive(i, k) ==
    /\ i < k
    /\ ~\E m \in OpenIdx : i < m /\ m < k

(* C36: detections processed with non-decreasing vts and no flush: the     *)
(* incidents of the camera do not overlap and consecutive incidents are    *)
(* more than merge_gap apart: the accident_close of incident n is          *)
(* published before the accident_open of incident n+1, and start_ts of     *)
(* incident n+1 minus end_ts of incident n exceeds merge_gap.              *)
C36_IncidentsApart ==
    flushes = 0 =>
       \A i, k \in OpenIdx :
          C36_Consecutive(i, k) =>
             \E j \in CloseIdx :
                /\ i < j
                /\ j < k
                /\ Id(j) = Id(i)
                /\ published[j].ev.start_ts = published[i].ev.pts_in_video
                /\ published[j].ev.end_ts >= published[j].ev.start_ts
                /\ published[k].ev.pts_in_video - published[j].ev.end_ts > 4000

\* Two incidents: the close of the first was published by a detection that
\* opened nothing, the second was opened by a later detection.
C36_Witness ==
    /\ flushes = 0
    /\ Cardinality(OpenIdx) = 2
    /\ \E j \in CloseIdx : \E k \in OpenIdx :
          /\ j < k
          /\ Id(j) # Id(k)
          /\ published[k].ev.pts_in_video > published[j].ev.end_ts + 4100

\* The vts of the Detections a turn published on accident:<c>, in the
\* order of publication.
C34_Vts(pub, c) ==
    LET F[i \in 0..Len(pub)] ==
           IF i = 0 THEN <<>>
           ELSE IF pub[i].topic = "accident:" \o c
                THEN Append(F[i - 1], pub[i].det.vts)
                ELSE F[i - 1]
    IN  F[Len(pub)]

C34_InOrder ==
    \A c \in Range(Cams) :
       LET vs == C34_Vts(det_published', c) IN
       /\ \A i, j \in DOMAIN vs : i < j => vs[i] < vs[j]
       /\ (vs # <<>> /\ accident_last[c] # None) => Val(accident_last[c]) < vs[1]

(* C34: for each camera the Detections published on accident:<cam> follow  *)
(* the order of the frames of frames:<cam>, their vts strictly increasing  *)
(* within a batch and from one batch to the next, however the collectors'  *)
(* appends interleave with the turns of the batching loop; the frames of   *)
(* different cameras may change places.                                    *)
C34_PerCameraOrder == [][C22_PublishStep => C34_InOrder]_vars

\* The last turn published a frame of cam-1 and after it a frame of cam-2
\* with a smaller vts: the cameras changed places, each camera in order.
C34_Witness ==
    /\ turn_outcome = "published"
    /\ \E i, j \in DOMAIN det_published :
          /\ i < j
          /\ det_published[i].topic = "accident:cam-1"
          /\ det_published[j].topic = "accident:cam-2"
          /\ det_published[i].det.vts > det_published[j].det.vts
          /\ det_published[i].det.frame_idx >= 1

(* C39: once stop() has been issued for a started session, no task of the  *)
(* session (frame source, resampler, aggregator) runs on without a _stop   *)
(* that is going to cancel it: this holds also when stop() came before     *)
(* the coroutine scheduled by start() began to run.                        *)
C39_StopCancelsTasks ==
    \A c \in DOMAIN session \ SESSIONS :
       session[c].stop = "none" =>
          \A k \in DOMAIN TaskNames : session[c][TaskNames[k]] # "running"

(* C40: after every ensure_join / ensure_leave of the pool, whatever the   *)
(* pool's state before, one live detector task serves exactly the active   *)
(* camera set, and there is no live detector task when the set is empty;   *)
(* a call made while a detector task was live ends like this too.          *)
C40_OneTaskForActiveSet ==
    pool_ops > 0 =>
       IF _active = {}
       THEN _task = None \/ _task.state = "done"
       ELSE /\ _task # None
            /\ _task.state \in {"created", "running"}
            /\ Range(_task.camera_ids) = _active

(***************************************************************************)
(* The aggregator's run loop under its owner: aggregator.run() as a task   *)
(* fed by the detector through accident:<cam>, and the coroutine that      *)
(* flushes the aggregator and cancels the task: SingleFileSession._start / *)
(* _stop, or eval_single_clip.  bus.publish takes the bus lock, which is   *)
(* never held across a suspension, and delivers with put_nowait: it never  *)
(* suspends, so _process(det) and flush() each run from their first line   *)
(* to their last without another task in between.  The tasks give way to   *)
(* each other at "await sub.get()", at a sleep and at the await of a task. *)
(***************************************************************************)
MaxLoopDet  == 10     \* Detections the detector publishes
MaxQueued   == 1      \* Detections waiting in the aggregator's queue
MaxLoopRuns == 3      \* runs of equal confidence among them
MaxLoopGaps == 1      \* steps of 4.1 s among them
ACC_MAXSIZE == 128    \* bus.subscribe(topic_in, mode="fifo", maxsize=128)

\* t.cancel() on the aggregator task
task_cancel(t) == IF t \in {"created", "running"} THEN "cancelling" ELSE t

\* What the owner and the other tasks leave alone.
loopOthers == <<busVars, srcVars, smpVars, detVars, poolVars, coordVars>>

\* await aggregator.flush(), from the owner
CoordFlushes ==
    /\ flush
    /\ flushes' = flushes + 1
    /\ lastOp' = "flush"
    /\ UNCHANGED <<envVars, mgrVars>>

(***************************************************************************)
(* run_accident_detector_multi publishes the next Detection on             *)
(* accident:<cam>: it reaches the aggregator's queue while aggregator.run  *)
(* is subscribed.  What it publishes after the aggregator task has ended   *)
(* reaches no one and is left out.                                         *)
(***************************************************************************)
DetPublish ==
    /\ coord.pc # "init"
    /\ agg_task # "cancelled"
    /\ feed.alive
    /\ feed.n < MaxLoopDet
    /\ Len(acc_q) < MaxQueued
    /\ \E conf \in Confs : \E d \in (IF feed.n = 0 THEN {0} ELSE Steps) :
          LET vts == feed.vts + d
              r   == IF feed.n > 0 /\ feed.conf = conf THEN feed.runs
                     ELSE feed.runs + 1
              g   == IF d \in GridSteps \cup {0} THEN feed.gaps
                     ELSE feed.gaps + 1
          IN  /\ r <= MaxLoopRuns
              /\ g <= MaxLoopGaps
              /\ feed' = [feed EXCEPT !.n = @ + 1, !.vts = vts, !.conf = conf,
                                      !.runs = r, !.gaps = g]
              /\ acc_q' = IF agg_task \in {"running", "cancelling"}
                          THEN deliver([mode |-> "fifo", cap |-> ACC_MAXSIZE,
                                        queue |-> acc_q],
                                       Detection(vts, conf, feed.n)).queue
                          ELSE acc_q
    /\ UNCHANGED <<agg_task, coord, aggVars, loopOthers>>

\* aggregator.run up to its first "await sub.get()": the subscription
AggRun ==
    /\ agg_task = "created"
    /\ agg_task' = "running"
    /\ UNCHANGED <<acc_q, feed, coord, aggVars, loopOthers>>

\* aggregator.run: det = await sub.get(); await self._process(det)
AggLoopStep ==
    /\ agg_task = "running"
    /\ acc_q # <<>>
    /\ Process(Head(acc_q))
    /\ acc_q' = Tail(acc_q)
    /\ ndet' = ndet + 1
    /\ last_conf' = Some(Head(acc_q).confidence)
    /\ lastOp' = "process"
    /\ UNCHANGED <<flushes, profile, runs, gaps, mgrVars, agg_task, feed, coord,
                   loopOthers>>

\* The cancelled aggregator task runs: CancelledError at "await sub.get()"
\* (also when an item was waiting for it) leaves the subscription.
AggCancelled ==
    /\ agg_task = "cancelling"
    /\ agg_task' = "cancelled"
    /\ acc_q' = <<>>
    /\ UNCHANGED <<feed, coord, aggVars, loopOthers>>

(***************************************************************************)
(* SingleFileSession._start and _stop.                                     *)
(***************************************************************************)
\* _start up to "await t_src"
SessionStart ==
    /\ coord.pc = "init"
    /\ coord' = [kind |-> "session", pc |-> "await_src"]
    /\ agg_task' = "created"
    /\ UNCHANGED <<acc_q, feed, aggVars, loopOthers>>

\* the source task has ended: t_smp is cancelled and awaited, the sleep of
\* 0.8 s begins
SessionSourceEof ==
    /\ coord.kind = "session"
    /\ coord.pc = "await_src"
    /\ coord' = [coord EXCEPT !.pc = "drain"]
    /\ UNCHANGED <<acc_q, agg_task, feed, aggVars, loopOthers>>

\* after the sleep: await aggregator.flush(); t_agg.cancel()
SessionFlush ==
    /\ coord.kind = "session"
    /\ coord.pc = "drain"
    /\ CoordFlushes
    /\ agg_task' = task_cancel(agg_task)
    /\ coord' = [coord EXCEPT !.pc = "await_agg"]
    /\ UNCHANGED <<acc_q, feed, loopOthers>>

\* after the gather of t_agg: finally
SessionAfterAggregator ==
    /\ coord.kind = "session"
    /\ coord.pc = "await_agg"
    /\ agg_task = "cancelled"
    /\ coord' = [coord EXCEPT !.pc = "done"]
    /\ UNCHANGED <<acc_q, agg_task, feed, aggVars, loopOthers>>

\* _stop: every task of the session is cancelled.  A _start that waits for
\* t_src gets CancelledError from it.
SessionStop ==
    /\ coord.kind = "session"
    /\ coord.pc \in {"await_src", "drain"}
    /\ agg_task \in {"created", "running"}
    /\ agg_task' = task_cancel(agg_task)
    /\ coord' = [coord EXCEPT !.pc = IF @ = "await_src" THEN "stopping" ELSE @]
    /\ UNCHANGED <<acc_q, feed, aggVars, loopOthers>>

\* _start, except asyncio.CancelledError: await aggregator.flush().  The
\* loop wakes _start after the tasks _stop cancelled before it.
SessionStopFlush ==
    /\ coord.kind = "session"
    /\ coord.pc = "stopping"
    /\ agg_task = "cancelled"
    /\ CoordFlushes
    /\ coord' = [coord EXCEPT !.pc = "done"]
    /\ UNCHANGED <<acc_q, agg_task, feed, loopOthers>>

SessionLoopNext ==
    \/ SessionStart \/ DetPublish \/ AggRun \/ AggLoopStep \/ AggCancelled
    \/ SessionSourceEof \/ SessionFlush \/ SessionAfterAggregator
    \/ SessionStop \/ SessionStopFlush

SpecSessionLoop == Init /\ [][SessionLoopNext]_vars

(***************************************************************************)
(* eval_single_clip, from "await frame_task" on.  Its call of              *)
(* run_frame_source_raw passes simulate_realtime, which the function in    *)
(* frame_discrete.py does not take: the steps below are those of the       *)
(* script once its frame task exists.                                      *)
(***************************************************************************)
\* up to "await frame_task"
EvalStart ==
    /\ coord.pc = "init"
    /\ coord' = [kind |-> "eval", pc |-> "await_src"]
    /\ agg_task' = "created"
    /\ UNCHANGED <<acc_q, feed, aggVars, loopOthers>>

\* the frame task has ended: await asyncio.sleep(1.0)
EvalSourceEnds ==
    /\ coord.kind = "eval"
    /\ coord.pc = "await_src"
    /\ coord' = [coord EXCEPT !.pc = "drain"]
    /\ UNCHANGED <<acc_q, agg_task, feed, aggVars, loopOthers>>

\* after the sleep: await aggregator.flush(), then safe_cancel(sampler_task)
\* up to its "await task"
EvalFlush ==
    /\ coord.kind = "eval"
    /\ coord.pc = "drain"
    /\ CoordFlushes
    /\ coord' = [coord EXCEPT !.pc = "cancel_smp"]
    /\ UNCHANGED <<acc_q, agg_task, feed, loopOthers>>

\* the sampler task has ended: safe_cancel(detector_task) up to its
\* "await task"; the cancelled detector publishes nothing more
EvalAfterSampler ==
    /\ coord.kind = "eval"
    /\ coord.pc = "cancel_smp"
    /\ feed' = [feed EXCEPT !.alive = FALSE]
    /\ coord' = [coord EXCEPT !.pc = "cancel_det"]
    /\ UNCHANGED <<acc_q, agg_task, aggVars, loopOthers>>

\* the detector task has ended: safe_cancel(agg_task) up to its "await task"
EvalAfterDetector ==
    /\ coord.kind = "eval"
    /\ coord.pc = "cancel_det"
    /\ agg_task' = task_cancel(agg_task)
    /\ coord' = [coord EXCEPT !.pc = "cancel_agg"]
    /\ UNCHANGED <<acc_q, feed, aggVars, loopOthers>>

\* the aggregator task has ended
EvalAfterAggregator ==
    /\ coord.kind = "eval"
    /\ coord.pc = "cancel_agg"
    /\ agg_task = "cancelled"
    /\ coord' = [coord EXCEPT !.pc = "done"]
    /\ UNCHANGED <<acc_q, agg_task, feed, aggVars, loopOthers>>

EvalLoopNext ==
    \/ EvalStart \/ DetPublish \/ AggRun \/ AggLoopStep \/ AggCancelled
    \/ EvalSourceEnds \/ EvalFlush \/ EvalAfterSampler \/ EvalAfterDetector
    \/ EvalAfterAggregator

SpecEvalLoop == Init /\ [][EvalLoopNext]_vars

\* No incident's accident_close is published twice.
C37_CloseOnce == \A j, k \in CloseIdx : Id(j) = Id(k) => j = k

\* When the session's coroutine has ended, no close is left stashed and
\* every incident that was opened has been closed.
C37_NothingLost ==
    coord.pc = "done" =>
       /\ pending_close = None
       /\ open = None
       /\ \A i \in OpenIdx : \E j \in CloseIdx : j > i /\ Id(j) = Id(i)

C38_NoOpen ==
    \A i \in DOMAIN NewlyPublished :
       NewlyPublished[i].ev.type # "accident_open"

=============================================================================
